---- MODULE Spec2Model ----
(***************************************************************************)
(* A model of notmuchfs (src/notmuchfs.c): the FUSE handlers of a virtual  *)
(* maildir file system over a notmuch index.                               *)
(*                                                                         *)
(* Specifications:                                                         *)
(*   Spec      concurrent workers and the index session (the mutex and the *)
(*             database handle of notmuch_context_t).                      *)
(*   SpecFile  one client's open and release of files: the X-Label header. *)
(*   SpecRead  one client's open, read and release: the offsets of reads.  *)
(*   SpecDir   one client's getattr, opendir, readdir and releasedir.      *)
(*   SpecRename  one client's renames: the backing store and the index.    *)
(***************************************************************************)
EXTENDS Integers, Sequences, FiniteSets, TLC

(***************************************************************************)
(* Bounds of the model.                                                    *)
(***************************************************************************)
NumWorkers == 2

\* The most tags a message of the file model carries.
MaxTags == 2

\* The most bytes a backing file of the file model holds.
MaxFileLen == 2

\* The most messages the index of the directory model holds.
MaxMsgs == 2

\* A readdir with offset 0 is made while next_offset is at most this.
MaxNextOffset == 4

\* The most library calls that fail in one rename.
MaxFaults == 1

\* The longest string given to the name codec.
MaxStrLen == 4

Workers == 1..NumWorkers

(***************************************************************************)
(* Program constants.                                                      *)
(***************************************************************************)
\* A null pointer (p_ctx->db = NULL); also "mutex unlocked" is modelled as 0.
NULL == 0

\* The length of the synthetic X-Label header (the spec's H).
MAX_XLABEL_LENGTH == 1024

\* Bytes are their ASCII codes.  XLABEL is "X-Label: ", TAG_ERROR_STRING is
\* "ERROR".
XLABEL == <<88, 45, 76, 97, 98, 101, 108, 58, 32>>

TAG_ERROR_STRING == <<69, 82, 82, 79, 82>>

\* '\0' (memset of open_t), ' ' (the padding), '\n' (the header's last
\* byte), ',' (the tag separator).
NUL == 0

SPACE == 32

LF == 10

COMMA == 44

(***************************************************************************)
(* State of the session model.                                             *)
(*   pc[w]    where worker w is: "idle" (between FUSE requests), "lock"    *)
(*            (blocked in PTHREAD_LOCK of database_open), "dbopen" (in the *)
(*            retry loop, about to call notmuch_database_open), "sleep"    *)
(*            (in sleep(1) after a contention error), "upgrade" (about to  *)
(*            call notmuch_database_needs_upgrade), "body" (database_open  *)
(*            has returned, the rest of the handler is to run).            *)
(*   op[w]    the handler w is running, or ran last.                       *)
(*   res[w]   the handler's local variable res / its return value.         *)
(*   dirh[w]  the directory handle (fi->fh of opendir) w holds: its type   *)
(*            or "none".                                                   *)
(*   mutex    p_ctx->mutex: NULL when unlocked, else the worker that       *)
(*            locked it.                                                   *)
(*   db       p_ctx->db: NULL, or the worker whose database_open set it.   *)
(*   contention  whether the index currently answers an open with          *)
(*            NOTMUCH_STATUS_XAPIAN_EXCEPTION (another process holds it).  *)
(*   proc     "running", "exited" (exit(1)) or "aborted" (a failed         *)
(*            assert).                                                     *)
(***************************************************************************)
VARIABLES pc, op, res, dirh, mutex, db, contention, proc

sessVars == <<pc, op, res, dirh, mutex, db, contention, proc>>

(***************************************************************************)
(* State of the data models (one client, handlers run to completion).      *)
(*   store    the backing store: a function from the paths that exist to   *)
(*            their files, [kind, data] with data the bytes of a regular   *)
(*            file or the target of a symbolic link.  Relative paths are   *)
(*            relative to the backing directory (notmuchfs_init's chdir).  *)
(*   index    the notmuch index: a function from the message ids it knows  *)
(*            to [files, tags], the file names and the tag list (in        *)
(*            iteration order) of the message.                             *)
(*   mutt_2476_workaround_allowed  global_config's flag of that name (the  *)
(*            spec's compat mode), fixed at start-up.                      *)
(*   p_open   the open file handle (open_t) of the client, or NoHandle.    *)
(*   ores     the last notmuchfs_open: its path and flags, its return      *)
(*            value, whether it reached database_open, and the backing     *)
(*            path it gave to open(2) (empty: none).                       *)
(*   rd       the last notmuchfs_read: its arguments, return value and the *)
(*            bytes it put in the caller's buffer.                         *)
(*   dir_fd   the open cur directory handle (opendir_t) of the client, or  *)
(*            NoDir: its type, p_query (the tags registered with the query *)
(*            as excluded), p_messages (the query's result and the         *)
(*            iterator's position in it) and next_offset.                  *)
(*   filled   the entries the filler accepted on this handle so far, in    *)
(*            order: [name, size, off], size being stbuf.st_size or NULL   *)
(*            where no stat is passed.                                     *)
(*   rdd      the last notmuchfs_readdir: offset_in, the handle before the *)
(*            call, the return value, the entries accepted in the call,    *)
(*            the entry the filler refused, and stat_failed, whether a     *)
(*            stat failed in this or an earlier readdir of the handle.     *)
(*   st       the last notmuchfs_getattr (or, in the attribute             *)
(*            specification, notmuchfs_mkdir): path, return value, st_size.*)
(*   excluded_tags  the bytes of p_ctx->excluded_tags before its final     *)
(*            NUL.                                                         *)
(*   rn       the last notmuchfs_rename: its arguments, its return value   *)
(*            and the index calls it made.                                 *)
(*   codec    the buffer string_replace works on: the string it held       *)
(*            first (orig), the string it holds (str) and the calls made   *)
(*            on it (ops).                                                 *)
(*   lnk      the symlink loop of notmuchfs_opendir: where the opendir is  *)
(*            (pc: "idle", "loop" in the loop of lines 463-480, "open"     *)
(*            past it), the local trans_name and res.                      *)
(***************************************************************************)
VARIABLES store, index, mutt_2476_workaround_allowed, p_open, ores, rd

VARIABLES dir_fd, filled, rdd, st, excluded_tags, rn, codec, lnk

dataVars == <<store, index, mutt_2476_workaround_allowed>>

fileVars == <<p_open, ores, rd>>

dirVars == <<dir_fd, filled, rdd, st, excluded_tags>>

renVars == <<rn>>

codecVars == <<codec>>

linkVars == <<lnk>>

vars == <<sessVars, dataVars, fileVars, dirVars, renVars, codecVars, linkVars>>

\* The session specification's steps leave the data models' variables alone.
SessFrame == UNCHANGED <<dataVars, fileVars, dirVars, renVars, codecVars, linkVars>>

SessionPcs == {"dbopen", "sleep", "upgrade", "body"}

OPENDIR_TYPE_NOTMUCH_QUERY == "NOTMUCH_QUERY"
OPENDIR_TYPE_MAIL_DIR      == "MAIL_DIR"
OPENDIR_TYPE_EMPTY_DIR     == "EMPTY_DIR"
OPENDIR_TYPE_BACKING_DIR   == "BACKING_DIR"

SessInit ==
  /\ pc = [w \in Workers |-> "idle"]
  /\ op = [w \in Workers |-> "none"]
  /\ res = [w \in Workers |-> "OK"]
  /\ dirh = [w \in Workers |-> "none"]
  /\ mutex = NULL
  /\ db = NULL
  /\ contention = FALSE
  /\ proc = "running"

(***************************************************************************)
(* PTHREAD_LOCK / PTHREAD_UNLOCK on the default (non-recursive) mutex made *)
(* by pthread_mutex_init(&mutex, NULL): a lock blocks while the mutex is   *)
(* locked, by whomever; an unlock releases it.                             *)
(***************************************************************************)
PTHREAD_LOCK_nowait(w) ==
  mutex' = w

PTHREAD_LOCK(w) ==
  /\ mutex = NULL
  /\ mutex' = w

PTHREAD_UNLOCK ==
  mutex' = NULL

(***************************************************************************)
(* database_open, lines 200-231, in steps: the lock (a blocking point),    *)
(* each turn of the retry loop, the sleep, the upgrade test.               *)
(***************************************************************************)
\* PTHREAD_LOCK, then assert(p_ctx->db == NULL).
DbLock(w) ==
  /\ proc = "running"
  /\ SessFrame
  /\ pc[w] = "lock"
  /\ PTHREAD_LOCK(w)
  /\ IF db = NULL
       THEN pc' = [pc EXCEPT ![w] = "dbopen"] /\ UNCHANGED proc
       ELSE proc' = "aborted" /\ UNCHANGED pc
  /\ UNCHANGED <<op, res, dirh, db, contention>>

\* notmuch_database_open returns NOTMUCH_STATUS_SUCCESS: leave the loop.
DbOpenSuccess(w) ==
  /\ proc = "running"
  /\ SessFrame
  /\ pc[w] = "dbopen"
  /\ ~contention
  /\ db' = w
  /\ pc' = [pc EXCEPT ![w] = "upgrade"]
  /\ UNCHANGED <<op, res, dirh, mutex, contention, proc>>

\* NOTMUCH_STATUS_XAPIAN_EXCEPTION: sleep(1) and try again; db stays NULL.
DbOpenContention_return(w) ==
  /\ proc = "running"
  /\ SessFrame
  /\ pc[w] = "dbopen"
  /\ contention
  /\ pc' = [pc EXCEPT ![w] = "body"]
  /\ UNCHANGED <<op, res, dirh, mutex, db, contention, proc>>

DbOpenContention(w) ==
  /\ proc = "running"
  /\ SessFrame
  /\ pc[w] = "dbopen"
  /\ contention
  /\ pc' = [pc EXCEPT ![w] = "sleep"]
  /\ UNCHANGED <<op, res, dirh, mutex, db, contention, proc>>

DbSleepDone(w) ==
  /\ proc = "running"
  /\ SessFrame
  /\ pc[w] = "sleep"
  /\ pc' = [pc EXCEPT ![w] = "dbopen"]
  /\ UNCHANGED <<op, res, dirh, mutex, db, contention, proc>>

\* Any other status: "ERROR: Database open error." and exit(1).
DbOpenError(w) ==
  /\ proc = "running"
  /\ SessFrame
  /\ pc[w] = "dbopen"
  /\ proc' = "exited"
  /\ UNCHANGED <<pc, op, res, dirh, mutex, db, contention>>

\* notmuch_database_needs_upgrade is true: exit(1).
DbUpgradeExit(w) ==
  /\ proc = "running"
  /\ SessFrame
  /\ pc[w] = "upgrade"
  /\ proc' = "exited"
  /\ UNCHANGED <<pc, op, res, dirh, mutex, db, contention>>

\* database_open returns to its caller.
DbOpenReturn(w) ==
  /\ proc = "running"
  /\ SessFrame
  /\ pc[w] = "upgrade"
  /\ pc' = [pc EXCEPT ![w] = "body"]
  /\ UNCHANGED <<op, res, dirh, mutex, db, contention, proc>>

(***************************************************************************)
(* database_close, lines 241-249: assert(db != NULL), close and destroy    *)
(* the handle, db = NULL, unlock.  It sets mutex', db' and proc'.          *)
(***************************************************************************)
database_close ==
  IF db = NULL
    THEN proc' = "aborted" /\ UNCHANGED <<mutex, db>>
    ELSE db' = NULL /\ PTHREAD_UNLOCK /\ UNCHANGED proc

\* The index is not touched.
NoSession == UNCHANGED <<mutex, db, proc>>

(***************************************************************************)
(* Other processes take and drop the index's lock.                         *)
(***************************************************************************)
ContentionStart ==
  /\ proc = "running"
  /\ SessFrame
  /\ ~contention
  /\ contention' = TRUE
  /\ UNCHANGED <<pc, op, res, dirh, mutex, db, proc>>

ContentionStop ==
  /\ proc = "running"
  /\ SessFrame
  /\ contention
  /\ contention' = FALSE
  /\ UNCHANGED <<pc, op, res, dirh, mutex, db, proc>>

(***************************************************************************)
(* notmuchfs_opendir, lines 422-532.                                       *)
(***************************************************************************)
\* "On success, the database is left open here" (lines 508-510).
opendir_success_session_closed ==
  database_close

opendir_success_session ==
  NoSession

\* opendir of /<q>/cur up to the call of database_open: the handle is
\* allocated, the symlink loop (lines 463-480) leaves res = 0, or -errno when
\* readlink failed; either way control reaches database_open (line 486).
OpendirCurStart(w) ==
  /\ proc = "running"
  /\ SessFrame
  /\ pc[w] = "idle"
  /\ dirh[w] = "none"
  /\ \E readlink_failed \in BOOLEAN :
       res' = [res EXCEPT ![w] = IF readlink_failed THEN "ERRNO" ELSE "OK"]
  /\ op' = [op EXCEPT ![w] = "opendir"]
  /\ pc' = [pc EXCEPT ![w] = "lock"]
  /\ UNCHANGED <<dirh, mutex, db, contention, proc>>

\* Lines 488-531: create the query, run it, and return.  A query or search
\* failure closes the session and sets res = -EIO; otherwise the session
\* stays open.  fi->fh is set only when res == 0 (line 525).
OpendirCurBody(w) ==
  /\ proc = "running"
  /\ SessFrame
  /\ pc[w] = "body"
  /\ op[w] = "opendir"
  /\ \E query_ok \in BOOLEAN, search_ok \in BOOLEAN :
       IF query_ok /\ search_ok
         THEN /\ opendir_success_session
              /\ dirh' = [dirh EXCEPT ![w] =
                            IF res[w] = "OK" THEN OPENDIR_TYPE_NOTMUCH_QUERY
                                             ELSE "none"]
              /\ UNCHANGED res
         ELSE /\ database_close
              /\ res' = [res EXCEPT ![w] = "EIO"]
              /\ UNCHANGED dirh
  /\ pc' = [pc EXCEPT ![w] = "idle"]
  /\ UNCHANGED <<op, contention>>

\* opendir of "/" or "/<q>", or of an unrecognized directory (-ENOENT): no
\* index session.  (A handle of /<q>/new or /<q>/tmp owns nothing either and
\* is, for the session, like that of "/<q>"; the directory specification
\* has it.)
OpendirOther(w) ==
  /\ proc = "running"
  /\ SessFrame
  /\ pc[w] = "idle"
  /\ dirh[w] = "none"
  /\ \E kind \in {OPENDIR_TYPE_BACKING_DIR, OPENDIR_TYPE_MAIL_DIR,
                  "unrecognized"} :
       IF kind = "unrecognized"
         THEN /\ res' = [res EXCEPT ![w] = "ENOENT"]
              /\ UNCHANGED dirh
         ELSE /\ res' = [res EXCEPT ![w] = "OK"]
              /\ dirh' = [dirh EXCEPT ![w] = kind]
  /\ op' = [op EXCEPT ![w] = "opendir"]
  /\ UNCHANGED <<pc, contention>>
  /\ NoSession

(***************************************************************************)
(* notmuchfs_releasedir, lines 536-561: a query handle destroys its        *)
(* iterator and query and closes the session; the handle is freed.         *)
(***************************************************************************)
Releasedir(w) ==
  /\ proc = "running"
  /\ SessFrame
  /\ pc[w] = "idle"
  /\ dirh[w] # "none"
  /\ IF dirh[w] = OPENDIR_TYPE_NOTMUCH_QUERY
       THEN database_close
       ELSE NoSession
  /\ dirh' = [dirh EXCEPT ![w] = "none"]
  /\ op' = [op EXCEPT ![w] = "releasedir"]
  /\ res' = [res EXCEPT ![w] = "OK"]
  /\ UNCHANGED <<pc, contention>>

(***************************************************************************)
(* notmuchfs_open, lines 783-878, as far as the session is concerned.      *)
(***************************************************************************)
\* The access modes of open(2), and a flag outside the access mode.
O_RDONLY == 0

O_WRONLY == 1

O_RDWR == 2

O_NONBLOCK == 2048

\* Line 785: (fi->flags & 3) != O_RDONLY.
access_refused_never(flags) == FALSE

access_refused(flags) == (flags % 4) # O_RDONLY

\* The flags of an open: each access mode, and read-only with another flag.
OpenFlags == {O_RDONLY, O_WRONLY, O_RDWR, O_RDONLY + O_NONBLOCK}

\* Lines 785-818: the access-mode test; a name with no '#' is opened in the
\* backing store at once; an encoded name goes on to database_open.
OpenStart(w) ==
  /\ proc = "running"
  /\ SessFrame
  /\ pc[w] = "idle"
  /\ \E flags \in OpenFlags, encoded \in BOOLEAN, os_ok \in BOOLEAN :
       IF access_refused(flags)
         THEN /\ res' = [res EXCEPT ![w] = "EACCES"]
              /\ UNCHANGED pc
         ELSE IF ~encoded
           THEN /\ res' = [res EXCEPT ![w] = IF os_ok THEN "OK" ELSE "ERRNO"]
                /\ UNCHANGED pc
           ELSE /\ res' = [res EXCEPT ![w] = "OK"]
                /\ pc' = [pc EXCEPT ![w] = "lock"]
  /\ op' = [op EXCEPT ![w] = "open"]
  /\ UNCHANGED <<dirh, contention>>
  /\ NoSession

\* Lines 820-877: look the message up; the session is closed on both
\* branches (lines 856, 860); then the backing file is opened.
OpenBody(w) ==
  /\ proc = "running"
  /\ SessFrame
  /\ pc[w] = "body"
  /\ op[w] = "open"
  /\ database_close
  /\ \E find_ok \in BOOLEAN, os_ok \in BOOLEAN :
       res' = [res EXCEPT ![w] = IF ~find_ok THEN "EIO"
                                 ELSE IF os_ok THEN "OK" ELSE "ERRNO"]
  /\ pc' = [pc EXCEPT ![w] = "idle"]
  /\ UNCHANGED <<op, dirh, contention>>

(***************************************************************************)
(* notmuchfs_rename, lines 957-1136, as far as the session is concerned.   *)
(***************************************************************************)
\* Lines 962-1062: a rename of two names without '#' is passed through; the
\* validation may reject (-ENOTSUP); the backing rename may fail (-errno);
\* otherwise control reaches database_open.
RenameStart(w) ==
  /\ proc = "running"
  /\ SessFrame
  /\ pc[w] = "idle"
  /\ \E kind \in {"passthrough", "rejected", "encoded"}, os_ok \in BOOLEAN :
       CASE kind = "rejected" ->
              /\ res' = [res EXCEPT ![w] = "ENOTSUP"]
              /\ UNCHANGED pc
         [] kind = "passthrough" \/ (kind = "encoded" /\ ~os_ok) ->
              /\ res' = [res EXCEPT ![w] = IF os_ok THEN "OK" ELSE "ERRNO"]
              /\ UNCHANGED pc
         [] kind = "encoded" /\ os_ok ->
              /\ res' = [res EXCEPT ![w] = "OK"]
              /\ pc' = [pc EXCEPT ![w] = "lock"]
  /\ op' = [op EXCEPT ![w] = "rename"]
  /\ UNCHANGED <<dirh, contention>>
  /\ NoSession

\* Lines 1064-1135: the atomic section.  begin_atomic failing gives -EIO;
\* a lookup that succeeds with no message fails assert(p_message != NULL)
\* (line 1101); end_atomic failing gives -EIO; database_close (line 1133) is
\* reached on every path that returns.
RenameBody(w) ==
  /\ proc = "running"
  /\ SessFrame
  /\ pc[w] = "body"
  /\ op[w] = "rename"
  /\ \E begin_ok \in BOOLEAN, find \in {"found", "null", "error"},
        end_ok \in BOOLEAN :
       IF begin_ok /\ find = "null"
         THEN /\ proc' = "aborted"
              /\ UNCHANGED <<pc, res, mutex, db>>
         ELSE /\ database_close
              /\ res' = [res EXCEPT ![w] =
                           IF begin_ok /\ end_ok THEN "OK" ELSE "EIO"]
              /\ pc' = [pc EXCEPT ![w] = "idle"]
  /\ UNCHANGED <<op, dirh, contention>>

(***************************************************************************)
(* The session specification.                                              *)
(***************************************************************************)
\* The data models' variables, unused by the session specification.
\* fi->fh of a file that is not open, and "no read has been made".
NoHandle == [fh |-> "none"]


\* fi->fh of a directory that is not open; no readdir, getattr, rename made.
NoDir == [type |-> "none"]


FileIdle ==
  /\ p_open = NoHandle
  /\ ores = [op |-> "none"]
  /\ rd = [op |-> "none"]

DirIdle ==
  /\ dir_fd = NoDir
  /\ filled = << >>
  /\ rdd = [op |-> "none"]
  /\ st = [op |-> "none"]
  /\ excluded_tags = << >>

RenameIdle ==
  rn = [op |-> "none"]

\* No string is being converted.
CodecIdle ==
  codec = [orig |-> << >>, str |-> << >>, ops |-> << >>]

\* No opendir is resolving a query name.
LinkIdle ==
  lnk = [pc |-> "idle", trans_name |-> << >>, res |-> "OK"]

\* The session model has an empty store and index and no data handler runs.
DataIdle ==
  /\ store = << >>
  /\ index = << >>
  /\ mutt_2476_workaround_allowed = FALSE
  /\ FileIdle
  /\ DirIdle
  /\ RenameIdle
  /\ CodecIdle
  /\ LinkIdle

Init ==
  /\ SessInit
  /\ DataIdle

Next ==
  \/ \E w \in Workers : OpendirCurStart(w)
  \/ \E w \in Workers : OpendirCurBody(w)
  \/ \E w \in Workers : OpendirOther(w)
  \/ \E w \in Workers : Releasedir(w)
  \/ \E w \in Workers : OpenStart(w)
  \/ \E w \in Workers : OpenBody(w)
  \/ \E w \in Workers : RenameStart(w)
  \/ \E w \in Workers : RenameBody(w)
  \/ \E w \in Workers : DbLock(w)
  \/ \E w \in Workers : DbOpenSuccess(w)
  \/ \E w \in Workers : DbOpenContention(w)
  \/ \E w \in Workers : DbSleepDone(w)
  \/ \E w \in Workers : DbOpenError(w)
  \/ \E w \in Workers : DbUpgradeExit(w)
  \/ \E w \in Workers : DbOpenReturn(w)
  \/ ContentionStart
  \/ ContentionStop

Spec == Init /\ [][Next]_vars

\* The session specification with its scheduling: a worker inside
\* database_open is a running thread, so each step of the function that
\* stays possible is taken (the index answers the open, sleep(1) returns,
\* the upgrade test is made).  Nothing is assumed of the clients, of the
\* other processes, or of a worker waiting for the mutex.
SpecLive ==
  /\ Init
  /\ [][Next]_vars
  /\ \A w \in Workers :
       /\ WF_vars(DbOpenSuccess(w))
       /\ WF_vars(DbOpenContention(w))
       /\ WF_vars(DbSleepDone(w))
       /\ WF_vars(DbOpenReturn(w))

\* The session specification under fair scheduling: every worker that is
\* inside a handler runs on, and a worker that waits for the mutex gets it
\* if it is unlocked again and again (strong fairness on the lock).  What
\* the clients call, and when, is not constrained.
SpecFair ==
  /\ Init
  /\ [][Next]_vars
  /\ \A w \in Workers :
       /\ SF_vars(DbLock(w))
       /\ WF_vars(DbOpenSuccess(w))
       /\ WF_vars(DbOpenContention(w))
       /\ WF_vars(DbSleepDone(w))
       /\ WF_vars(DbOpenReturn(w))
       /\ WF_vars(OpendirCurBody(w))
       /\ WF_vars(OpenBody(w))
       /\ WF_vars(RenameBody(w))

(***************************************************************************)
(* C strings.  A path is a sequence of one-character strings; positions    *)
(* count from 1, and 0 stands for a null pointer returned by strchr or     *)
(* strrchr.  The models' paths are far shorter than PATH_MAX, so the       *)
(* strncpy(.., PATH_MAX - 1) of the handlers copies them whole.            *)
(***************************************************************************)
\* string_replace, lines 178-187: every old becomes new.
string_replace_first(str, old, new) ==
  LET hits == {i \in 1..Len(str) : str[i] = old}
  IN [i \in 1..Len(str) |->
        IF hits # {} /\ i = CHOOSE h \in hits : \A g \in hits : h <= g
          THEN new ELSE str[i]]

string_replace(str, old, new) ==
  [i \in 1..Len(str) |-> IF str[i] = old THEN new ELSE str[i]]

\* strrchr(str + from - 1, ch): the last position >= from holding ch.
strrchr(str, from, ch) ==
  LET hits == {i \in from..Len(str) : str[i] = ch}
  IN IF hits = {} THEN 0 ELSE CHOOSE h \in hits : \A g \in hits : g <= h

\* strchr(str + from - 1, ch): the first position >= from holding ch.
strchr(str, from, ch) ==
  LET hits == {i \in from..Len(str) : str[i] = ch}
  IN IF hits = {} THEN 0 ELSE CHOOSE h \in hits : \A g \in hits : h <= g

\* The string starting at position from (a pointer into str).
StrFrom(str, from) ==
  SubSeq(str, from, Len(str))

(***************************************************************************)
(* The name codec: the handlers encode a backing path into a token with    *)
(* string_replace(trans_name, '/', '#') (line 594) and decode a token with *)
(* string_replace(trans_name, '#', '/') (lines 362, 807, 1044, 1049,       *)
(* 1154).                                                                  *)
(* Specification SpecCodec makes the two calls, in any order and up to two *)
(* of them, on every string of up to MaxStrLen characters out of an        *)
(* ordinary character and the two the codec exchanges.                     *)
(***************************************************************************)


\* Line 594.
CodecEncode ==
  /\ Len(codec.ops) < 2
  /\ codec' = [codec EXCEPT
                 !.str = string_replace(@, "/", "#"),
                      !.ops = Append(@, "encode")]
  /\ UNCHANGED <<sessVars, dataVars, fileVars, dirVars, renVars, linkVars>>

\* Lines 362, 807, 1044, 1049, 1154.
CodecDecode ==
  /\ Len(codec.ops) < 2
  /\ codec' = [codec EXCEPT
                 !.str = string_replace(@, "#", "/"),
                      !.ops = Append(@, "decode")]
  /\ UNCHANGED <<sessVars, dataVars, fileVars, dirVars, renVars, linkVars>>

CodecInit ==
  /\ SessInit
  /\ store = << >>
  /\ index = << >>
  /\ mutt_2476_workaround_allowed = FALSE
  /\ FileIdle
  /\ DirIdle
  /\ RenameIdle
  /\ LinkIdle
  /\ \E s \in UNION {[1..n -> {"a", "/", "#"}] : n \in 0..MaxStrLen} :
       codec = [orig |-> s, str |-> s, ops |-> << >>]

CodecNext ==
  \/ CodecEncode
  \/ CodecDecode

SpecCodec == CodecInit /\ [][CodecNext]_vars

(***************************************************************************)
(* The header buffer of open_t: x_label[0 .. MAX_XLABEL_LENGTH - 1], with  *)
(* a flag that records a write outside the array.                          *)
(***************************************************************************)
\* x_label[i], for i in 0 .. MAX_XLABEL_LENGTH - 1: the buffer is kept as
\* the sequence of its bytes.
At(x, i) == x[i + 1]

\* memset(p_open, 0, sizeof(open_t)), line 789.
ZeroedXLabel ==
  [x |-> [i \in 1..MAX_XLABEL_LENGTH |-> NUL], over |-> FALSE]

Min(a, b) == IF a < b THEN a ELSE b

\* memcpy(x_label + at, bytes, Len(bytes)): the bytes that fall in the
\* buffer replace what was there; over records a write outside it.
memcpy(m, at, bytes) ==
  LET start == Min(at, MAX_XLABEL_LENGTH)
      n     == Min(Len(bytes), MAX_XLABEL_LENGTH - start)
  IN [x |-> SubSeq(m.x, 1, start) \o SubSeq(bytes, 1, n)
              \o SubSeq(m.x, start + n + 1, MAX_XLABEL_LENGTH),
      over |-> m.over \/ (Len(bytes) > 0 /\ at + Len(bytes) > MAX_XLABEL_LENGTH)]

(***************************************************************************)
(* fill_string_with_tags, lines 726-767.  buf_in is x_label + base, length *)
(* the room there; the loop is at tag k having written used bytes.  The    *)
(* result is the buffer and the number of bytes written (buf - buf_in).    *)
(***************************************************************************)
\* Line 739: the tag is refused when strlen(tag_str) >= length - (buf - buf_in).
tag_refused(tag_len, length, used) ==
  tag_len >= length - used

RECURSIVE fill_loop(_, _, _, _, _, _)
fill_loop(m, base, length, tags, k, used) ==
  IF k > Len(tags)
    THEN [m |-> m, used |-> used, error |-> FALSE]
    ELSE
      IF tag_refused(Len(tags[k]), length, used)
        THEN [m |-> m, used |-> used, error |-> TRUE]
        ELSE
          LET m1 == memcpy(m, base + used, tags[k])
              used1 == used + Len(tags[k])
          IN IF k < Len(tags)
               THEN \* notmuch_tags_valid: another tag follows, add ','.
                    IF length - used1 < 1
                      THEN [m |-> m1, used |-> used1, error |-> TRUE]
                      ELSE fill_loop(memcpy(m1, base + used1, <<COMMA>>),
                                     base, length, tags, k + 1, used1 + 1)
               ELSE fill_loop(m1, base, length, tags, k + 1, used1)

fill_string_with_tags(m, base, length, tags) ==
  LET r == fill_loop(m, base, length, tags, 1, 0)
  IN IF r.error
       THEN [m |-> memcpy(r.m, base, TAG_ERROR_STRING),
             n |-> Len(TAG_ERROR_STRING)]
       ELSE [m |-> r.m, n |-> r.used]

(***************************************************************************)
(* The header notmuchfs_open composes for a found message, lines 829-852:  *)
(* XLABEL, the tags, spaces up to MAX_XLABEL_LENGTH - 2 and a final LF.    *)
(* The result is the buffer, and aborted when assert(1 <= MAX_XLABEL_LENGTH*)
(* - (buf - x_label)) of line 850 fails.                                   *)
(***************************************************************************)
\* Line 846: the padding byte.
PadByte_nul == NUL

PadByte == SPACE

compose_x_label(tags) ==
  LET m1 == memcpy(ZeroedXLabel, 0, XLABEL)
      f  == fill_string_with_tags(m1, Len(XLABEL),
                                  MAX_XLABEL_LENGTH - Len(XLABEL) - 1, tags)
      buf == Len(XLABEL) + f.n
      \* while (buf - x_label < MAX_XLABEL_LENGTH - 1) *buf++ = ' ';
      m2 == IF buf < MAX_XLABEL_LENGTH - 1
              THEN [x |-> SubSeq(f.m.x, 1, buf)
                            \o [i \in 1..(MAX_XLABEL_LENGTH - 1 - buf) |-> PadByte]
                            \o SubSeq(f.m.x, MAX_XLABEL_LENGTH, MAX_XLABEL_LENGTH),
                    over |-> f.m.over]
              ELSE f.m
      buf2 == IF buf < MAX_XLABEL_LENGTH - 1 THEN MAX_XLABEL_LENGTH - 1 ELSE buf
  IN IF 1 <= MAX_XLABEL_LENGTH - buf2
       THEN [m |-> memcpy(m2, buf2, <<LF>>), aborted |-> FALSE]
       ELSE [m |-> m2, aborted |-> TRUE]


(***************************************************************************)
(* The backing store and the index, as the handlers see them.              *)
(***************************************************************************)
\* stat/lstat/open of a path: does it exist.
Exists(path) == path \in DOMAIN store

\* st_size of a regular file.
size_of(path) == Len(store[path].data)

\* pread(fd, buf, n, off) on a regular file: the bytes [off, off + n) that
\* the file has.
pread(data, n, off) ==
  SubSeq(data, off + 1, Min(off + n, Len(data)))

\* notmuch_database_find_message_by_filename on success: the message that
\* has this file name, or NULL.
find_message_by_filename(filename) ==
  IF \E id \in DOMAIN index : filename \in index[id].files
    THEN CHOOSE id \in DOMAIN index : filename \in index[id].files
    ELSE NULL

(***************************************************************************)
(* notmuchfs_open, lines 783-878, as a whole.  Its inputs: the path,       *)
(* fi->flags and whether the index lookup succeeds.  The result: the       *)
(* return value, the handle (fh is the backing path the descriptor is open *)
(* on; encoded and found record how the handle came about), session        *)
(* (whether database_open was reached) and os_open (the path given to      *)
(* open(2), empty when it was not called).                                 *)
(***************************************************************************)
notmuchfs_open(path, flags, find_ok) ==
  LET last_slash == strrchr(path, 2, "/")
      direct     == StrFrom(path, 2)
      last_seg   == StrFrom(path, last_slash + 1)
      encoded    == strchr(last_seg, 1, "#") # 0
      trans_name == IF encoded THEN string_replace(last_seg, "#", "/")
                               ELSE last_seg
      p_message  == find_message_by_filename(trans_name)
      header     == compose_x_label(index[p_message].tags)
      Handle(fh, m, enc, fnd) ==
        [fh |-> fh, x_label |-> m.x, over |-> m.over,
         encoded |-> enc, found |-> fnd]
      Return(r, h, ab, sess, opened) ==
        [res |-> r, h |-> h, aborted |-> ab, session |-> sess, os_open |-> opened]
  IN
  IF access_refused(flags)
    THEN Return("EACCES", NoHandle, FALSE, FALSE, << >>)
  ELSE IF last_slash = 0
    THEN IF Exists(direct)
           THEN Return("OK", Handle(direct, ZeroedXLabel, FALSE, FALSE), FALSE,
                       FALSE, direct)
           ELSE Return("ENOENT", NoHandle, FALSE, FALSE, direct)
  ELSE IF encoded /\ ~find_ok
    THEN Return("EIO", NoHandle, FALSE, TRUE, << >>)
  ELSE IF encoded /\ p_message # NULL /\ header.aborted
    THEN Return("none", NoHandle, TRUE, TRUE, << >>)
  ELSE IF ~Exists(trans_name)
    THEN Return("ENOENT", NoHandle, FALSE, encoded, trans_name)
  ELSE Return("OK",
              Handle(trans_name,
                     IF encoded /\ p_message # NULL THEN header.m
                                                    ELSE ZeroedXLabel,
                     encoded, encoded /\ p_message # NULL),
              FALSE, encoded, trans_name)

(***************************************************************************)
(* notmuchfs_read, lines 899-931.  Inputs: the handle, size, offset and    *)
(* whether pread succeeds.  Result: the return value (-1 stands for        *)
(* -errno) and the bytes put in the caller's buffer.                       *)
(***************************************************************************)
\* Lines 923-924: pread's offset in the backing file.
backing_offset_unadjusted(offset, offset_adj) ==
  offset

backing_offset(offset, offset_adj) ==
  offset - offset_adj

notmuchfs_read(h, size, offset_in, pread_ok) ==
  LET in_header     == offset_in < MAX_XLABEL_LENGTH
      bytes_to_copy == IF in_header
                         THEN Min(MAX_XLABEL_LENGTH - offset_in, size)
                         ELSE 0
      copied        == SubSeq(h.x_label, offset_in + 1, offset_in + bytes_to_copy)
      offset_adj    == IF in_header THEN offset_in + bytes_to_copy
                                    ELSE MAX_XLABEL_LENGTH
      offset        == offset_in + bytes_to_copy
      bytes_to_read == size - bytes_to_copy
      got           == pread(store[h.fh].data, bytes_to_read,
                             backing_offset(offset, offset_adj))
  IN IF bytes_to_read > 0
       THEN IF pread_ok
              THEN [res |-> bytes_to_copy + Len(got), data |-> copied \o got]
              ELSE [res |-> -1, data |-> copied]
       ELSE [res |-> bytes_to_copy, data |-> copied]

(***************************************************************************)
(* The file specification: one client opens, reads and releases files of   *)
(* a fixed store and index.                                                *)
(***************************************************************************)
\* A tag of n bytes c.
Tag(c, n) == [i \in 1..n |-> c]

\* Tags short and long: with XLABEL, the final LF and a ',' between two
\* tags, the joined lengths fall on both sides of the header's room.
TagPool ==
  {Tag(97, 1), Tag(98, 505), Tag(99, 506), Tag(100, 507),
   Tag(101, 1013), Tag(102, 1014)}

\* The tag lists of a message: up to MaxTags different tags.
TagLists ==
  UNION {{t \in [1..n -> TagPool] :
            \A i, j \in 1..n : i # j => t[i] # t[j]} : n \in 0..MaxTags}

\* The message file, the virtual path of it under a query q, a top-level
\* file of the backing directory, and its virtual path.
MailFile == <<"/", "m", "/", "1">>

VirtualMail == <<"/", "q", "/", "c", "u", "r", "/", "#", "m", "#", "1">>

TopFile == <<"t">>

VirtualTop == <<"/", "t">>

\* A virtual path under cur/ whose last segment has no '#'.
OpenPaths ==
  {VirtualMail, VirtualTop, <<"/", "q", "/", "c", "u", "r", "/", "t">>}

RegularFile(data) == [kind |-> "reg", data |-> data]

\* The store and index of the file models: the mail file holds data, if it
\* exists; the index has one message with tag list tags for it, if indexed.
FileWorld(d, mail_exists, tags, indexed) ==
  /\ store = IF mail_exists
               THEN (MailFile :> RegularFile(d)) @@ (TopFile :> RegularFile(<<113>>))
               ELSE (TopFile :> RegularFile(<<113>>))
  /\ index = IF indexed
               THEN (1 :> [files |-> {MailFile}, tags |-> tags])
               ELSE << >>
  /\ mutt_2476_workaround_allowed = FALSE
  /\ FileIdle
  /\ DirIdle
  /\ RenameIdle
  /\ CodecIdle
  /\ LinkIdle

\* The handler runs database_open .. database_close within the step, so
\* mutex and db are as before; a failed assert ends the process.
FileOpen ==
  /\ proc = "running"
  /\ p_open = NoHandle
  /\ \E path \in OpenPaths, flags \in OpenFlags, find_ok \in BOOLEAN :
       LET r == notmuchfs_open(path, flags, find_ok)
       IN /\ p_open' = r.h
          /\ ores' = [op |-> "open", path |-> path, flags |-> flags,
                      res |-> r.res, session |-> r.session,
                      os_open |-> r.os_open]
          /\ proc' = IF r.aborted THEN "aborted" ELSE proc
  /\ UNCHANGED <<pc, op, res, dirh, mutex, db, contention>>
  /\ UNCHANGED <<dataVars, rd, dirVars, renVars, codecVars, linkVars>>

\* notmuchfs_release, lines 882-895: the handle is closed and freed (and
\* with it the record of what was read from it).
FileRelease ==
  /\ proc = "running"
  /\ p_open # NoHandle
  /\ p_open' = NoHandle
  /\ rd' = [op |-> "none"]
  /\ UNCHANGED <<sessVars, dataVars, ores, dirVars, renVars, codecVars, linkVars>>

\* Specification SpecFile: messages with every tag list of TagLists are
\* opened and released.
FileInit ==
  /\ SessInit
  /\ \E mail_exists \in BOOLEAN, tags \in TagLists, indexed \in BOOLEAN :
       FileWorld(<<65>>, mail_exists, tags, indexed)

FileNext ==
  \/ FileOpen
  \/ FileRelease

SpecFile == FileInit /\ [][FileNext]_vars

\* Specification SpecRead (its ReadNext follows notmuchfs_getattr): files
\* of every length up to MaxFileLen, behind a zeroed header, a header with
\* tags and an ERROR header, are read at offsets and sizes on both sides of
\* the header's end, and the attributes of their paths are taken.
ReadOffsets ==
  {0, 1, MAX_XLABEL_LENGTH - 1, MAX_XLABEL_LENGTH, MAX_XLABEL_LENGTH + 1,
   MAX_XLABEL_LENGTH + MaxFileLen}


FileRead ==
  /\ proc = "running"
  /\ p_open # NoHandle
  /\ \E offset \in ReadOffsets,
        size \in {0, 1, 2, MAX_XLABEL_LENGTH + 1},
        pread_ok \in BOOLEAN :
       LET r == notmuchfs_read(p_open, size, offset, pread_ok)
       IN rd' = [op |-> "read", off |-> offset, size |-> size,
                 res |-> r.res, data |-> r.data]
  /\ UNCHANGED <<sessVars, dataVars, p_open, ores, dirVars, renVars, codecVars, linkVars>>

ReadInit ==
  /\ SessInit
  \* File contents of 0 .. MaxFileLen bytes ("A", "AB", ...).
  /\ \E d \in {[i \in 1..n |-> 64 + i] : n \in 0..MaxFileLen},
        tags \in {<<Tag(97, 1), Tag(98, 505)>>, <<Tag(102, 1014)>>},
        indexed \in BOOLEAN :
       FileWorld(d, TRUE, tags, indexed)


(***************************************************************************)
(* The directory model: getattr, and opendir, readdir, releasedir of the   *)
(* virtual directories.  The stores of these models hold regular files and *)
(* directories, no symbolic links, so stat and lstat agree and the loop of *)
(* opendir's lines 463-480 ends at its first lstat (the link               *)
(* specification has the links).                                           *)
(***************************************************************************)
Directory == [kind |-> "dir", data |-> << >>]

\* stat/lstat of a path: whether it succeeds, and st_size.  A name with a
\* trailing '/' is the directory of that name.
stat(path) ==
  LET slashed == path # << >> /\ path[Len(path)] = "/"
      name    == IF slashed THEN SubSeq(path, 1, Len(path) - 1) ELSE path
  IN IF Exists(name) /\ (slashed => store[name].kind = "dir")
       THEN [ok |-> TRUE, st_size |-> size_of(name)]
       ELSE [ok |-> FALSE, st_size |-> 0]

\* strcmp(str + from - 1, lit) == 0.
StrEq(str, from, lit) == StrFrom(str, from) = lit

\* strncmp/memcmp(str + from - 1, lit, Len(lit)) == 0.
StrPrefix(str, from, lit) ==
  /\ from >= 1
  /\ from + Len(lit) - 1 <= Len(str)
  /\ SubSeq(str, from, from + Len(lit) - 1) = lit

(***************************************************************************)
(* notmuchfs_getattr, lines 306-379: the return value and stbuf.st_size    *)
(* (stbuf is zeroed first, so a failed stat leaves 0 there).               *)
(***************************************************************************)
\* Line 371: stbuf->st_size += MAX_XLABEL_LENGTH.
getattr_st_size(st_size) == st_size + MAX_XLABEL_LENGTH

notmuchfs_getattr(path) ==
  LET last_slash  == strrchr(path, 2, "/")
      first_slash == strchr(path, 2, "/")
      Answer(s)   == [res |-> IF s.ok THEN "OK" ELSE "ERRNO", st_size |-> s.st_size]
      workaround  == /\ mutt_2476_workaround_allowed
                     /\ last_slash - 1 >= 3
                     /\ StrPrefix(path, last_slash - 3, <<"n", "e", "w">>)
      trans_name  == string_replace(StrFrom(path, last_slash + 1), "#", "/")
  IN
  IF path = <<"/">>
    THEN \* stat(".") of the backing directory.
         [res |-> "OK", st_size |-> 0]
  ELSE IF last_slash = 0
    THEN Answer(stat(StrFrom(path, 2)))
  ELSE IF \/ StrEq(path, last_slash + 1, <<"n", "e", "w">>)
          \/ StrEq(path, last_slash + 1, <<"t", "m", "p">>)
          \/ StrEq(path, last_slash + 1, <<"c", "u", "r">>)
    THEN \* strncpy(trans_name, path + 1, last_slash - path) takes the
         \* parent with its trailing '/'.
         Answer(stat(SubSeq(path, 2, last_slash)))
  ELSE IF \/ workaround
          \/ /\ last_slash - first_slash > 3
             /\ StrPrefix(path, first_slash, <<"/", "c", "u", "r", "/">>)
    THEN [res |-> IF stat(trans_name).ok THEN "OK" ELSE "ERRNO",
          st_size |-> getattr_st_size(stat(trans_name).st_size)]
  ELSE [res |-> "ENOENT", st_size |-> 0]

\* notmuchfs_getattr of the paths that are opened.
FileGetattr ==
  /\ proc = "running"
  /\ \E path \in OpenPaths :
       LET r == notmuchfs_getattr(path)
       IN st' = [op |-> "getattr", path |-> path, res |-> r.res,
                 st_size |-> r.st_size]
  /\ UNCHANGED <<sessVars, dataVars, fileVars, dir_fd, filled, rdd,
                 excluded_tags, renVars, codecVars, linkVars>>

ReadNext ==
  \/ FileOpen
  \/ FileRead
  \/ FileRelease
  \/ FileGetattr

SpecRead == ReadInit /\ [][ReadNext]_vars

(***************************************************************************)
(* strtok(p_ctx->excluded_tags, "\n") and its continuations, lines         *)
(* 492-496.  buf is the bytes of the buffer before its terminating NUL, p  *)
(* strtok's saved pointer.  A delimiter that ends a token is overwritten   *)
(* with NUL.  The result: the tokens returned and the buffer afterwards.   *)
(***************************************************************************)
ByteAt(buf, p) == IF p > Len(buf) THEN NUL ELSE buf[p]

RECURSIVE SkipDelimiters(_, _)
SkipDelimiters(buf, p) ==
  IF ByteAt(buf, p) = LF THEN SkipDelimiters(buf, p + 1) ELSE p

RECURSIVE TokenEnd(_, _)
TokenEnd(buf, p) ==
  IF ByteAt(buf, p) \in {LF, NUL} THEN p ELSE TokenEnd(buf, p + 1)

RECURSIVE strtok(_, _, _)
strtok(buf, p, tokens) ==
  LET start == SkipDelimiters(buf, p)
      end   == TokenEnd(buf, start)
  IN IF ByteAt(buf, start) = NUL
       THEN [tokens |-> tokens, buf |-> buf]
       ELSE IF ByteAt(buf, end) = LF
              THEN strtok([buf EXCEPT ![end] = NUL], end + 1,
                          Append(tokens, SubSeq(buf, start, end - 1)))
              ELSE strtok(buf, end, Append(tokens, SubSeq(buf, start, end - 1)))

\* notmuch_query_search_messages_st with NOTMUCH_EXCLUDE_ALL: the messages
\* of the index, in the index's order, that carry none of the excluded tags
\* (the models' query matches every message).
search_messages(exclude) ==
  SelectSeq([id \in 1..Len(index) |-> id],
            LAMBDA id : \A i \in 1..Len(index[id].tags) :
                          \A j \in 1..Len(exclude) :
                            index[id].tags[i] # exclude[j])

(***************************************************************************)
(* The filler of a readdir call.  With a non-zero offset the entry goes    *)
(* into the caller's buffer and is refused (non-zero return) when that is  *)
(* full: room is the number of entries it still takes.  With offset 0 the  *)
(* entry is kept by the library and taken always.                          *)
(***************************************************************************)
filler_takes(room, off) == off = 0 \/ room > 0

Entry(name, st_size, off) == [name |-> name, st_size |-> st_size, off |-> off]

\* Line 597: stbuf.st_size += MAX_XLABEL_LENGTH.
readdir_st_size_plain(st_size) == st_size

readdir_st_size(st_size) == st_size + MAX_XLABEL_LENGTH

\* Lines 600-602: next_offset after a refused filler(.., next_offset++):
\* the increment is taken back.
refused_next_offset_kept(next_offset) == next_offset + 1

refused_next_offset(next_offset) == (next_offset + 1) - 1

(***************************************************************************)
(* fill_dir_with_message, lines 578-623.  stat_fails: the stat of this     *)
(* message's file fails with an error other than ENOENT.  The result: the  *)
(* handle, the return value, the entry the filler took, if any, and the    *)
(* entry it refused, if any.                                               *)
(***************************************************************************)
fill_dir_with_message(d, p_message, room, stat_fails) ==
  LET fname      == CHOOSE f \in index[p_message].files : TRUE
      trans_name == string_replace(fname, "/", "#")
      offered    == <<Entry(trans_name, readdir_st_size(stat(fname).st_size),
                            d.next_offset)>>
  IN IF index[p_message].files = {}
       THEN \* notmuch_message_get_filename returned NULL.
            [d |-> d, res |-> "OK", out |-> << >>, refused |-> << >>]
     ELSE IF stat_fails
       THEN [d |-> d, res |-> "ERRNO", out |-> << >>, refused |-> << >>]
     ELSE IF ~stat(fname).ok
       THEN \* ENOENT: the message is skipped.
            [d |-> d, res |-> "OK", out |-> << >>, refused |-> << >>]
     ELSE IF filler_takes(room, d.next_offset)
       THEN [d   |-> [d EXCEPT !.next_offset = @ + 1],
             res |-> "OK",
             out |-> offered,
             refused |-> << >>]
       ELSE [d   |-> [d EXCEPT !.next_offset = refused_next_offset(@)],
             res |-> "INT_MAX",
             out |-> << >>,
             refused |-> offered]

\* Lines 658-661: after a refused entry the loop is left before
\* notmuch_messages_move_to_next, the iterator stays on the message.
after_refusal_moved(d, moved) == moved

after_refusal(d, moved) == d

\* The loop of lines 651-663.
RECURSIVE readdir_messages(_, _, _, _)
readdir_messages(d, room, out, fail_at) ==
  IF d.p_messages.pos > Len(d.p_messages.msgs)
    THEN \* notmuch_messages_get returned NULL.
         [d |-> d, res |-> "OK", out |-> out, refused |-> << >>]
    ELSE
      LET r == fill_dir_with_message(d, d.p_messages.msgs[d.p_messages.pos],
                                     room, d.p_messages.pos = fail_at)
          moved == [r.d EXCEPT !.p_messages.pos = @ + 1]
      IN IF r.res = "INT_MAX"
           THEN [d |-> after_refusal(r.d, moved), res |-> "OK", out |-> out,
                 refused |-> r.refused]
         ELSE IF r.res # "OK"
           THEN [d |-> moved, res |-> r.res, out |-> out, refused |-> << >>]
         ELSE readdir_messages(moved, room - Len(r.out), out \o r.out, fail_at)

(***************************************************************************)
(* notmuchfs_readdir, lines 627-706, on the handle d.  Inputs: offset_in,  *)
(* the room of the caller's buffer, and the position in the query's result *)
(* of a message whose stat fails (0: none).  The result: the handle, the   *)
(* return value and the entries the filler took, in order.                 *)
(***************************************************************************)
\* Line 644.
discontiguous_never(offset_in, next_offset) == FALSE

discontiguous(offset_in, next_offset) == offset_in + 1 # next_offset

Dot == <<".">>

DotDot == <<".", ".">>

notmuchfs_readdir(d, offset_in, room, fail_at) ==
  IF d.type = OPENDIR_TYPE_NOTMUCH_QUERY
    THEN
      IF offset_in = 0
        THEN \* Lines 641-642: two entries, the filler's answer is not read.
             LET e1 == IF filler_takes(room, d.next_offset)
                         THEN <<Entry(Dot, NULL, d.next_offset)>> ELSE << >>
                 e2 == IF filler_takes(room - Len(e1), d.next_offset + 1)
                         THEN <<Entry(DotDot, NULL, d.next_offset + 1)>>
                         ELSE << >>
             IN readdir_messages([d EXCEPT !.next_offset = @ + 2],
                                 room - Len(e1) - Len(e2), e1 \o e2, fail_at)
      ELSE IF discontiguous(offset_in, d.next_offset)
        THEN [d |-> d, res |-> "EDOM", out |-> << >>, refused |-> << >>]
      ELSE readdir_messages(d, room, << >>, fail_at)
  ELSE IF d.type = OPENDIR_TYPE_EMPTY_DIR
    THEN [d |-> d, res |-> "OK", refused |-> << >>,
          out |-> <<Entry(Dot, NULL, 0), Entry(DotDot, NULL, 0)>>]
  ELSE \* OPENDIR_TYPE_MAIL_DIR
       [d |-> d, res |-> "OK", refused |-> << >>,
        out |-> <<Entry(Dot, NULL, 0), Entry(DotDot, NULL, 0),
                  Entry(<<"c", "u", "r">>, NULL, 0),
                  Entry(<<"n", "e", "w">>, NULL, 0),
                  Entry(<<"t", "m", "p">>, NULL, 0)>>]

(***************************************************************************)
(* The directory specification: one client takes the attributes of paths   *)
(* and opens, reads and releases the virtual directories of a query q,     *)
(* over a fixed store and index.                                           *)
(***************************************************************************)
\* The client is worker 1 of the session model.
Client == 1


\* The file name of message n, and its virtual path under q.
MailPath(n) ==
  <<"/", "m", "/", <<"1", "2", "3", "4", "5", "6", "7", "8", "9">>[n]>>

QueryDir == <<"q">>

CurDir == <<"/", "q", "/", "c", "u", "r">>

NewDir == <<"/", "q", "/", "n", "e", "w">>

EncodedPath(dir, name) == dir \o <<"/">> \o string_replace(name, "/", "#")

VirtualPath(dir, n) == EncodedPath(dir, MailPath(n))

\* The tags "x" and "y"; message 2 carries x, message 3 carries y.
TagX == <<120>>

TagY == <<121>>

MsgTags(n) == IF n = 2 THEN <<TagX>> ELSE IF n = 3 THEN <<TagY>> ELSE << >>

\* What notmuchfs_init read into excluded_tags: nothing, or "x\ny".
ExcludedTagLists == {<< >>, TagX \o <<LF>> \o TagY}

\* The type opendir gives the handle of path, lines 427-522 ("/" apart).
opendir_type(path) ==
  LET last_slash == strrchr(path, 2, "/")
  IN IF last_slash = 0
       THEN OPENDIR_TYPE_MAIL_DIR
     ELSE IF \/ StrEq(path, last_slash + 1, <<"n", "e", "w">>)
             \/ StrEq(path, last_slash + 1, <<"t", "m", "p">>)
       THEN OPENDIR_TYPE_EMPTY_DIR
     ELSE IF StrEq(path, last_slash + 1, <<"c", "u", "r">>)
       THEN OPENDIR_TYPE_NOTMUCH_QUERY
     ELSE "unrecognized"


GetattrPaths ==
  {<<"/">>, <<"/", "q">>, CurDir, <<"/", "q", "/", "x">>,
   VirtualPath(NewDir, 1)}
    \cup {VirtualPath(CurDir, n) : n \in 1..MaxMsgs}

\* notmuchfs_opendir, lines 422-532, of a virtual directory.  For cur the
\* session is opened (the client holds no other handle, so the lock is
\* free) and, on success, left open.
DirOpendir ==
  /\ proc = "running"
  /\ dir_fd = NoDir
  /\ mutex = NULL
  /\ db = NULL
  /\ \E path \in {CurDir, NewDir, <<"/", "q">>, <<"/", "q", "/", "x">>},
        query_ok \in BOOLEAN, search_ok \in BOOLEAN :
       LET type == opendir_type(path)
           tok  == strtok(excluded_tags, 1, << >>)
           ok   == IF type = OPENDIR_TYPE_NOTMUCH_QUERY
                     THEN query_ok /\ search_ok
                     ELSE type # "unrecognized"
       IN /\ excluded_tags' =
               IF type = OPENDIR_TYPE_NOTMUCH_QUERY /\ query_ok
                 THEN tok.buf ELSE excluded_tags
          /\ dir_fd' =
               IF ~ok THEN NoDir
               ELSE IF type = OPENDIR_TYPE_NOTMUCH_QUERY
                 THEN [type |-> type,
                       p_query |-> [exclude |-> tok.tokens],
                       p_messages |-> [msgs |-> search_messages(tok.tokens),
                                       pos |-> 1],
                       next_offset |-> 1]
               ELSE [type |-> type]
          /\ mutex' = IF ok /\ type = OPENDIR_TYPE_NOTMUCH_QUERY
                        THEN Client ELSE NULL
          /\ db' = mutex'
          /\ dirh' = [dirh EXCEPT ![Client] = IF ok THEN type ELSE "none"]
          /\ res' = [res EXCEPT ![Client] =
                       IF ok THEN "OK"
                       ELSE IF type = "unrecognized" THEN "ENOENT" ELSE "EIO"]
  /\ op' = [op EXCEPT ![Client] = "opendir"]
  /\ UNCHANGED <<pc, contention, proc>>
  /\ UNCHANGED <<dataVars, fileVars, filled, rdd, st, renVars, codecVars, linkVars>>

\* notmuchfs_readdir.  A readdir with offset 0 is made while next_offset is
\* at most MaxNextOffset; a handle of new, tmp or /<q> is read once.
DirReaddir ==
  /\ proc = "running"
  /\ dir_fd # NoDir
  /\ dir_fd.type # OPENDIR_TYPE_NOTMUCH_QUERY => filled = << >>
  /\ LET query == dir_fd.type = OPENDIR_TYPE_NOTMUCH_QUERY
     IN \E offset_in \in IF query
                           THEN {0, dir_fd.next_offset - 1, dir_fd.next_offset}
                           ELSE {0},
           room \in {2, 3, MaxMsgs + 2},
           fail_at \in 0..(IF query THEN Len(dir_fd.p_messages.msgs) ELSE 0) :
          /\ (query /\ offset_in = 0) => dir_fd.next_offset <= MaxNextOffset
          /\ LET r == notmuchfs_readdir(dir_fd, offset_in, room, fail_at)
             IN /\ dir_fd' = r.d
                /\ filled' = filled \o r.out
                /\ rdd' = [op |-> "readdir", offset_in |-> offset_in,
                           before |-> dir_fd, res |-> r.res, out |-> r.out,
                           refused |-> r.refused,
                           stat_failed |-> \/ r.res = "ERRNO"
                                           \/ /\ rdd.op = "readdir"
                                              /\ rdd.stat_failed]
                /\ res' = [res EXCEPT ![Client] = r.res]
  /\ op' = [op EXCEPT ![Client] = "readdir"]
  /\ UNCHANGED <<pc, dirh, mutex, db, contention, proc>>
  /\ UNCHANGED <<dataVars, fileVars, st, excluded_tags, renVars, codecVars, linkVars>>

\* notmuchfs_releasedir, lines 536-561.
DirReleasedir ==
  /\ proc = "running"
  /\ dir_fd # NoDir
  /\ IF dir_fd.type = OPENDIR_TYPE_NOTMUCH_QUERY
       THEN database_close
       ELSE NoSession
  /\ dir_fd' = NoDir
  /\ filled' = << >>
  /\ rdd' = [op |-> "none"]
  /\ dirh' = [dirh EXCEPT ![Client] = "none"]
  /\ op' = [op EXCEPT ![Client] = "releasedir"]
  /\ res' = [res EXCEPT ![Client] = "OK"]
  /\ UNCHANGED <<pc, contention>>
  /\ UNCHANGED <<dataVars, fileVars, st, excluded_tags, renVars, codecVars, linkVars>>

\* notmuchfs_getattr.
DirGetattr ==
  /\ proc = "running"
  /\ \E path \in GetattrPaths :
       LET r == notmuchfs_getattr(path)
       IN st' = [op |-> "getattr", path |-> path, res |-> r.res,
                 st_size |-> r.st_size]
  /\ UNCHANGED <<sessVars, dataVars, fileVars, dir_fd, filled, rdd,
                 excluded_tags, renVars, codecVars, linkVars>>

\* Up to MaxMsgs messages: the file of each is there ("file"), is gone
\* ("gone") or the index has no file name for it ("noname").
DirInit ==
  /\ SessInit
  /\ FileIdle
  /\ RenameIdle
  /\ CodecIdle
  /\ LinkIdle
  /\ dir_fd = NoDir
  /\ filled = << >>
  /\ rdd = [op |-> "none"]
  /\ st = [op |-> "none"]
  /\ mutt_2476_workaround_allowed \in BOOLEAN
  /\ excluded_tags \in ExcludedTagLists
  /\ \E k \in 0..MaxMsgs :
       \E kinds \in [1..k -> {"file", "gone", "noname"}] :
         /\ index = [n \in 1..k |->
                       [files |-> IF kinds[n] = "noname" THEN {} ELSE {MailPath(n)},
                        tags  |-> MsgTags(n)]]
         /\ store = [p \in {QueryDir} \cup {MailPath(n) : n \in {m \in 1..k : kinds[m] = "file"}} |->
                       IF p = QueryDir
                         THEN Directory
                         ELSE RegularFile([i \in 1..(CHOOSE n \in 1..k : MailPath(n) = p) |-> 65])]

DirNext ==
  \/ DirOpendir
  \/ DirReaddir
  \/ DirReleasedir
  \/ DirGetattr

SpecDir == DirInit /\ [][DirNext]_vars

(***************************************************************************)
(* The attribute specification: one client makes directories in the        *)
(* backing store through notmuchfs_mkdir and takes the attributes of       *)
(* paths.  st records the last of the two calls.                           *)
(***************************************************************************)
\* mkdir(2) of a name relative to the backing directory: the parent must be
\* a directory (the backing directory itself for a name with no '/') and
\* the name must not exist.
os_mkdir(sto, name, fault) ==
  LET last_slash == strrchr(name, 1, "/")
      parent     == SubSeq(name, 1, last_slash - 1)
  IN IF fault
       THEN [res |-> "ERRNO", store |-> sto]
     ELSE IF name \in DOMAIN sto
       THEN [res |-> "EEXIST", store |-> sto]
     ELSE IF last_slash # 0 /\ (parent \notin DOMAIN sto \/ sto[parent].kind # "dir")
       THEN [res |-> "ENOENT", store |-> sto]
     ELSE [res |-> "OK", store |-> (name :> Directory) @@ sto]

\* notmuchfs_mkdir, lines 935-942: mkdir(path + 1, mode).
notmuchfs_mkdir(path, fault) ==
  os_mkdir(store, StrFrom(path, 2), fault)

\* Directories of the backing store, on the top level and below q and d.
PlainDir == <<"/", "d">>

MkdirPaths ==
  {PlainDir, PlainDir \o <<"/", "x">>, <<"/", "q", "/", "x">>,
   <<"/", "q", "/", "y">>}

AttrPaths ==
  MkdirPaths \cup {<<"/">>, <<"/", "q">>, CurDir, VirtualPath(CurDir, 1)}

AttrMkdir ==
  /\ proc = "running"
  /\ \E path \in MkdirPaths, fault \in BOOLEAN :
       LET r == notmuchfs_mkdir(path, fault)
       IN /\ store' = r.store
          /\ st' = [op |-> "mkdir", path |-> path, res |-> r.res, st_size |-> 0]
  /\ UNCHANGED <<sessVars, index, mutt_2476_workaround_allowed, fileVars,
                 dir_fd, filled, rdd, excluded_tags, renVars, codecVars, linkVars>>

AttrGetattr ==
  /\ proc = "running"
  /\ \E path \in AttrPaths :
       LET r == notmuchfs_getattr(path)
       IN st' = [op |-> "getattr", path |-> path, res |-> r.res,
                 st_size |-> r.st_size]
  /\ UNCHANGED <<sessVars, dataVars, fileVars, dir_fd, filled, rdd,
                 excluded_tags, renVars, codecVars, linkVars>>

\* The backing directory holds the query directory q and one mail.
AttrInit ==
  /\ SessInit
  /\ FileIdle
  /\ DirIdle
  /\ RenameIdle
  /\ CodecIdle
  /\ LinkIdle
  /\ mutt_2476_workaround_allowed \in BOOLEAN
  /\ index = (1 :> [files |-> {MailPath(1)}, tags |-> << >>])
  /\ store = (QueryDir :> Directory) @@ (MailPath(1) :> RegularFile(<<65>>))

AttrNext ==
  \/ AttrMkdir
  \/ AttrGetattr

SpecAttr == AttrInit /\ [][AttrNext]_vars

(***************************************************************************)
(* The link specification: one client opens and releases /<q>/cur where    *)
(* <q> may be a symbolic link in the backing store.  The symlink loop of   *)
(* notmuchfs_opendir (lines 463-480) is taken one turn at a time.          *)
(***************************************************************************)
\* A symbolic link with this target.
SymLink(target) == [kind |-> "lnk", data |-> target]

\* The names <q> of the models, and a name that nothing has.
LinkNames == {<<"q">>, <<"a">>, <<"b">>}


\* Lines 454-460: OPENDIR_TYPE_NOTMUCH_QUERY; trans_name is the path
\* between its leading '/' and its last '/'; res is still 0.
LinkOpendir ==
  /\ proc = "running"
  /\ lnk.pc = "idle"
  /\ dir_fd = NoDir
  /\ mutex = NULL
  /\ db = NULL
  /\ \E q \in LinkNames :
       LET path       == <<"/">> \o q \o <<"/", "c", "u", "r">>
           last_slash == strrchr(path, 2, "/")
       IN lnk' = [pc |-> "loop", trans_name |-> SubSeq(path, 2, last_slash - 1),
                  res |-> "OK"]
  /\ op' = [op EXCEPT ![Client] = "opendir"]
  /\ UNCHANGED <<pc, res, dirh, mutex, db, contention, proc>>
  /\ UNCHANGED <<dataVars, fileVars, dirVars, renVars, codecVars>>

\* Lines 463-480, one turn: while (res == 0), lstat; a symbolic link is
\* read and its target becomes trans_name (readlink may fail: res =
\* -errno); anything else leaves the loop.
LinkResolve ==
  /\ proc = "running"
  /\ lnk.pc = "loop"
  /\ IF lnk.res # "OK"
       THEN lnk' = [lnk EXCEPT !.pc = "open"]
     ELSE IF lnk.trans_name \in DOMAIN store /\ store[lnk.trans_name].kind = "lnk"
       THEN \E readlink_ok \in BOOLEAN :
              lnk' = IF readlink_ok
                       THEN [lnk EXCEPT !.trans_name = store[lnk.trans_name].data]
                       ELSE [lnk EXCEPT !.res = "ERRNO"]
     ELSE lnk' = [lnk EXCEPT !.pc = "open"]
  /\ UNCHANGED <<sessVars, dataVars, fileVars, dirVars, renVars, codecVars>>

\* Lines 482-531: database_open (the lock is free), the query is made and
\* run; a failure closes the session and gives -EIO, otherwise the session
\* stays open and res is what the loop left; fi->fh is set when res == 0.
LinkQuery ==
  /\ proc = "running"
  /\ lnk.pc = "open"
  /\ \E query_ok \in BOOLEAN, search_ok \in BOOLEAN :
       LET tok == strtok(excluded_tags, 1, << >>)
           ran == query_ok /\ search_ok
           r   == IF ran THEN lnk.res ELSE "EIO"
       IN /\ excluded_tags' = IF query_ok THEN tok.buf ELSE excluded_tags
          /\ dir_fd' =
               IF r = "OK"
                 THEN [type |-> OPENDIR_TYPE_NOTMUCH_QUERY,
                       p_query |-> [exclude |-> tok.tokens],
                       p_messages |-> [msgs |-> search_messages(tok.tokens),
                                       pos |-> 1],
                       next_offset |-> 1]
                 ELSE NoDir
          /\ mutex' = IF ran THEN Client ELSE NULL
          /\ db' = mutex'
          /\ dirh' = [dirh EXCEPT ![Client] =
                        IF r = "OK" THEN OPENDIR_TYPE_NOTMUCH_QUERY ELSE "none"]
          /\ res' = [res EXCEPT ![Client] = r]
          /\ lnk' = [lnk EXCEPT !.pc = "idle", !.res = r]
  /\ UNCHANGED <<pc, op, contention, proc>>
  /\ UNCHANGED <<dataVars, fileVars, filled, rdd, st, renVars, codecVars>>

\* Each name is not there, is a directory, or is a symbolic link to one of
\* the names or to a name that is not there.
LinkInit ==
  /\ SessInit
  /\ FileIdle
  /\ DirIdle
  /\ RenameIdle
  /\ CodecIdle
  /\ LinkIdle
  /\ mutt_2476_workaround_allowed = FALSE
  /\ index = << >>
  /\ \E there \in SUBSET LinkNames :
       store \in [there -> {Directory}
                             \cup {SymLink(t) : t \in LinkNames \cup {<<"z">>}}]

LinkNext ==
  \/ LinkOpendir
  \/ LinkResolve
  \/ LinkQuery
  \/ DirReleasedir

\* A handler that has been called runs on.
SpecLink ==
  /\ LinkInit
  /\ [][LinkNext]_vars
  /\ WF_vars(LinkResolve)
  /\ WF_vars(LinkQuery)

(***************************************************************************)
(* The index calls of notmuchfs_rename, on an index idx (the index of the  *)
(* state as changed so far by the handler).  Each has the input fault:     *)
(* the call fails with an error status such as                             *)
(* NOTMUCH_STATUS_XAPIAN_EXCEPTION and changes nothing.                    *)
(***************************************************************************)
\* What a call with no other outcome returns.
Status(fault) == IF fault THEN "XAPIAN_EXCEPTION" ELSE "SUCCESS"

\* The message of idx that has this file name, or NULL.
find_in(idx, filename) ==
  IF \E id \in DOMAIN idx : filename \in idx[id].files
    THEN CHOOSE id \in DOMAIN idx : filename \in idx[id].files
    ELSE NULL

\* notmuch_database_add_message(db, filename, NULL), line 1074: the file is
\* read from the store sto; a message with its id gains the file name, or a
\* new message is made.  The Message-ID of a mail file is the first byte of
\* its data; a file with no data is not a mail.
notmuch_database_add_message(idx, sto, filename, fault) ==
  IF fault
    THEN [status |-> "XAPIAN_EXCEPTION", index |-> idx]
  ELSE IF filename \notin DOMAIN sto \/ sto[filename].kind # "reg"
    THEN [status |-> "FILE_ERROR", index |-> idx]
  ELSE IF sto[filename].data = << >>
    THEN [status |-> "FILE_NOT_EMAIL", index |-> idx]
  ELSE LET id == sto[filename].data[1]
       IN IF id \in DOMAIN idx
            THEN [status |-> "DUPLICATE_MESSAGE_ID",
                  index  |-> [idx EXCEPT ![id].files = @ \cup {filename}]]
            ELSE [status |-> "SUCCESS",
                  index  |-> (id :> [files |-> {filename}, tags |-> << >>])
                               @@ idx]

\* notmuch_database_remove_message(db, filename), line 1082: the message
\* loses the file name; it stays if it has other file names
\* (DUPLICATE_MESSAGE_ID) and is deleted otherwise (SUCCESS).
notmuch_database_remove_message(idx, filename, fault) ==
  LET id == find_in(idx, filename)
  IN IF fault
       THEN [status |-> "XAPIAN_EXCEPTION", index |-> idx]
     ELSE IF id = NULL
       THEN [status |-> "SUCCESS", index |-> idx]
     ELSE IF idx[id].files = {filename}
       THEN [status |-> "SUCCESS",
             index  |-> [i \in DOMAIN idx \ {id} |-> idx[i]]]
     ELSE [status |-> "DUPLICATE_MESSAGE_ID",
           index  |-> [idx EXCEPT ![id].files = @ \ {filename}]]

\* The tags that stand for maildir flags: D draft, F flagged, P passed,
\* R replied, and unread for the absence of S.
TagFlagged == <<102, 108, 97, 103, 103, 101, 100>>


TagUnread == <<117, 110, 114, 101, 97, 100>>

flag2tag ==
  <<[flag |-> "D", tag |-> <<100, 114, 97, 102, 116>>, inverse |-> FALSE],
    [flag |-> "F", tag |-> TagFlagged, inverse |-> FALSE],
    [flag |-> "P", tag |-> <<112, 97, 115, 115, 101, 100>>, inverse |-> FALSE],
    [flag |-> "R", tag |-> <<114, 101, 112, 108, 105, 101, 100>>,
     inverse |-> FALSE],
    [flag |-> "S", tag |-> TagUnread,  inverse |-> TRUE]>>

\* The maildir info of a file name: where ":2," starts in its last segment
\* (0: none), and the flags after it.
MaildirInfo(filename) ==
  LET last_slash == strrchr(filename, 1, "/")
      colon      == strrchr(filename, last_slash + 1, ":")
  IN IF colon # 0 /\ StrPrefix(filename, colon, <<":", "2", ",">>)
       THEN colon ELSE 0

MaildirFlags(filename) ==
  IF MaildirInfo(filename) = 0
    THEN {}
    ELSE {filename[i] : i \in (MaildirInfo(filename) + 3)..Len(filename)}

\* notmuch_message_add_tag / notmuch_message_remove_tag on a tag list.
add_tag(tags, tag) ==
  IF \E i \in 1..Len(tags) : tags[i] = tag THEN tags ELSE Append(tags, tag)

remove_tag(tags, tag) ==
  SelectSeq(tags, LAMBDA t : t # tag)

RECURSIVE flags_to_tags(_, _, _)
flags_to_tags(tags, flags, k) ==
  IF k > Len(flag2tag)
    THEN tags
    ELSE flags_to_tags(IF (flag2tag[k].flag \in flags) # flag2tag[k].inverse
                         THEN add_tag(tags, flag2tag[k].tag)
                         ELSE remove_tag(tags, flag2tag[k].tag),
                       flags, k + 1)

\* notmuch_message_maildir_flags_to_tags(p_message), line 1104: the flags
\* of all file names of the message that have maildir info are combined and
\* the flag tags set from them; no file name with maildir info, no change.
notmuch_message_maildir_flags_to_tags(idx, id, fault) ==
  LET with_info == {f \in idx[id].files : MaildirInfo(f) # 0}
      flags     == UNION {MaildirFlags(f) : f \in with_info}
  IN IF fault \/ with_info = {}
       THEN idx
       ELSE [idx EXCEPT ![id].tags = flags_to_tags(@, flags, 1)]

\* notmuch_message_add_tag(p_message, "unread"), line 1114.
notmuch_message_add_tag(idx, id, tag, fault) ==
  IF fault THEN idx ELSE [idx EXCEPT ![id].tags = add_tag(@, tag)]

(***************************************************************************)
(* notmuchfs_rename, lines 957-1136, as a whole.  Inputs: the two paths    *)
(* and faults, the set of the library calls that fail in this run          *)
(* ("rename": the backing store's rename; the others: the index calls).    *)
(* The result: the return value, the store and the index afterwards,       *)
(* whether assert(p_message != NULL) failed, and calls, what each index    *)
(* call returned ("none": not made), and session, whether database_open    *)
(* (line 1062) was reached.                                                *)
(***************************************************************************)
Prefix(str, n) == SubSeq(str, 1, Min(n, Len(str)))

\* Lines 995-1035: the prefixes differ and no workaround case applies.
rename_die_3_never(same_parent, mutt_2476_workaround) == FALSE

rename_die_3(same_parent, mutt_2476_workaround) ==
  ~same_parent /\ mutt_2476_workaround = 0

\* rename(2) of a to b in the store sto.
os_rename(sto, a, b, fault) ==
  IF fault \/ a \notin DOMAIN sto
    THEN [ok |-> FALSE, store |-> sto]
    ELSE [ok |-> TRUE,
          store |-> [p \in (DOMAIN sto \ {a}) \cup {b} |->
                       IF p = b THEN sto[a] ELSE sto[p]]]

NoCalls ==
  [begin |-> "none", add |-> "none", remove |-> "none", find |-> "none",
   flags |-> "none", unread |-> "none", end |-> "none"]

\* Lines 1072-1075: the add and remove are made when the names differ.
names_differ_always(trans_name_from, trans_name_to) == TRUE

names_differ(trans_name_from, trans_name_to) == trans_name_from # trans_name_to

\* Lines 1074-1082: the remove is made when the add returned this status.
remove_after_none(add_status) == FALSE

remove_after_success(add_status) == add_status = "SUCCESS"

remove_after(add_status) == add_status = "DUPLICATE_MESSAGE_ID"

\* Line 1112: the case of the workaround in which unread is added.
unread_case_any(mutt_2476_workaround) == mutt_2476_workaround # 0

unread_case(mutt_2476_workaround) == mutt_2476_workaround = 1

\* Lines 1064-1066 and 1129-1130: what a failed begin_atomic or end_atomic
\* makes of res.
atomic_res_ignored(failed) == "OK"

atomic_res(failed) == IF failed THEN "EIO" ELSE "OK"

\* Lines 1062-1135, after the file was moved: sto is the store by now.
rename_in_index(sto, trans_name_from, trans_name_to, mutt_2476_workaround, faults) ==
  LET differ    == names_differ(trans_name_from, trans_name_to)
      a         == IF differ
                     THEN notmuch_database_add_message(index, sto, trans_name_to,
                                                       "add" \in faults)
                     ELSE [status |-> "none", index |-> index]
      removing  == differ /\ remove_after(a.status)
      r         == IF removing
                     THEN notmuch_database_remove_message(a.index, trans_name_from,
                                                          "remove" \in faults)
                     ELSE [status |-> "none", index |-> a.index]
      find_ok   == "find" \notin faults
      p_message == find_in(r.index, trans_name_to)
      f         == notmuch_message_maildir_flags_to_tags(r.index, p_message,
                                                         "flags" \in faults)
      unread    == mutt_2476_workaround_allowed /\ unread_case(mutt_2476_workaround)
      u         == IF unread
                     THEN notmuch_message_add_tag(f, p_message, TagUnread,
                                                  "add_tag" \in faults)
                     ELSE f
  IN IF "begin" \in faults
       THEN [res |-> atomic_res(TRUE), store |-> sto, index |-> index,
             aborted |-> FALSE,
             calls |-> [NoCalls EXCEPT !.begin = Status(TRUE)]]
     ELSE IF ~find_ok
       THEN [res |-> atomic_res("end" \in faults),
             store |-> sto, index |-> r.index, aborted |-> FALSE,
             calls |-> [NoCalls EXCEPT !.begin = Status(FALSE),
                                       !.add = a.status, !.remove = r.status,
                                       !.find = Status(TRUE),
                                       !.end = Status("end" \in faults)]]
     ELSE IF p_message = NULL
       THEN \* assert(p_message != NULL), line 1101.
            [res |-> "none", store |-> sto, index |-> r.index, aborted |-> TRUE,
             calls |-> [NoCalls EXCEPT !.begin = Status(FALSE),
                                       !.add = a.status, !.remove = r.status,
                                       !.find = Status(FALSE)]]
     ELSE [res |-> atomic_res("end" \in faults),
           store |-> sto, index |-> u, aborted |-> FALSE,
           calls |-> [begin |-> Status(FALSE), add |-> a.status,
                      remove |-> r.status, find |-> Status(FALSE),
                      flags |-> Status("flags" \in faults),
                      unread |-> IF unread THEN Status("add_tag" \in faults)
                                           ELSE "none",
                      end |-> Status("end" \in faults)]]

notmuchfs_rename(from, to, faults) ==
  LET last_pslash_from == strrchr(from, 2, "#")
      last_pslash_to   == strrchr(to, 2, "#")
      last_slash_from  == strrchr(from, 2, "/")
      last_slash_to    == strrchr(to, 2, "/")
      \* strncmp(from, to, last_pslash_from - from) == 0, line 995.
      same_parent      == Prefix(from, last_pslash_from - 1)
                            = Prefix(to, last_pslash_from - 1)
      \* Lines 1000-1030.
      mutt_2476_workaround ==
        IF /\ mutt_2476_workaround_allowed
           /\ last_slash_from - 1 >= 3
           /\ Prefix(from, last_slash_from - 4) = Prefix(to, last_slash_from - 4)
          THEN IF /\ StrPrefix(from, last_slash_from - 3, <<"c", "u", "r">>)
                  /\ StrPrefix(to, last_slash_to - 3, <<"n", "e", "w">>)
                 THEN 1
               ELSE IF /\ StrPrefix(from, last_slash_from - 3, <<"n", "e", "w">>)
                       /\ StrPrefix(to, last_slash_to - 3, <<"c", "u", "r">>)
                 THEN 2
               ELSE 0
          ELSE 0
      trans_name_from == string_replace(StrFrom(from, last_slash_from + 1), "#", "/")
      trans_name_to   == string_replace(StrFrom(to, last_slash_to + 1), "#", "/")
      passed  == os_rename(store, StrFrom(from, 2), StrFrom(to, 2), "rename" \in faults)
      moved   == os_rename(store, trans_name_from, trans_name_to, "rename" \in faults)
      Return(r, sto) ==
        [res |-> r, store |-> sto, index |-> index, aborted |-> FALSE,
         calls |-> NoCalls, trans_name_from |-> << >>, trans_name_to |-> << >>,
         mutt_2476_workaround |-> 0, session |-> FALSE]
  IN IF last_pslash_from = 0 /\ last_pslash_to = 0
       THEN Return(IF passed.ok THEN "OK" ELSE "ERRNO", passed.store)
     ELSE IF last_pslash_from = 0 \/ last_pslash_to = 0
       THEN Return("ENOTSUP", store)
     ELSE IF last_pslash_from # last_pslash_to
       THEN Return("ENOTSUP", store)
     ELSE IF rename_die_3(same_parent, mutt_2476_workaround)
       THEN Return("ENOTSUP", store)
     ELSE IF ~moved.ok
       THEN [Return("ERRNO", store) EXCEPT !.trans_name_from = trans_name_from,
                                           !.trans_name_to = trans_name_to]
     ELSE LET w == IF same_parent THEN 0 ELSE mutt_2476_workaround
              r == rename_in_index(moved.store, trans_name_from, trans_name_to,
                                   w, faults)
          IN [res |-> r.res, store |-> r.store, index |-> r.index,
              aborted |-> r.aborted, calls |-> r.calls,
              trans_name_from |-> trans_name_from,
              trans_name_to |-> trans_name_to,
              mutt_2476_workaround |-> w, session |-> TRUE]

(***************************************************************************)
(* The rename specification: one client makes a rename among the names of  *)
(* one mail, from every store and index of RenameInit.                     *)
(***************************************************************************)
\* The names of the mail in its maildir: no flag, seen, flagged.
NameA == <<"/", "m", "/", "c", "u", "r", "/", "1", ":", "2", ",">>

NameB == NameA \o <<"S">>


\* The name of a file of another maildir.
NameOther == <<"/", "n", "/", "c", "u", "r", "/", "1", ":", "2", ",">>

\* The name of a file whose maildir has a longer path.
NameLonger == <<"/", "m", "m", "/", "c", "u", "r", "/", "1", ":", "2", ",">>

CurTokens == {EncodedPath(CurDir, NameA), EncodedPath(CurDir, NameB)}

RenamePaths ==
  CurTokens \cup {EncodedPath(NewDir, NameB), EncodedPath(CurDir, NameOther),
                  EncodedPath(NewDir, NameOther),
                  EncodedPath(CurDir, NameLonger), VirtualTop}

FaultPoints == {"rename", "begin", "add", "remove", "find", "flags", "add_tag", "end"}

\* The handler runs database_open .. database_close within the step (the
\* client holds no handle, so the lock is free).  After a failed assert
\* the index has the changes made so far, or has lost them.  A behaviour
\* makes one rename.
Rename ==
  /\ proc = "running"
  /\ mutex = NULL
  /\ db = NULL
  /\ rn = [op |-> "none"]
  \* At most MaxFaults library calls fail in one rename.
  /\ \E from \in RenamePaths, to \in RenamePaths,
        faults \in {f \in SUBSET FaultPoints : Cardinality(f) <= MaxFaults} :
       LET r == notmuchfs_rename(from, to, faults)
       IN /\ store' = r.store
          /\ index' \in IF r.aborted THEN {index, r.index} ELSE {r.index}
          /\ proc' = IF r.aborted THEN "aborted" ELSE proc
          /\ rn' = [op |-> "rename", from |-> from, to |-> to, res |-> r.res,
                    trans_name_from |-> r.trans_name_from,
                    trans_name_to |-> r.trans_name_to,
                    mutt_2476_workaround |-> r.mutt_2476_workaround,
                    calls |-> r.calls, session |-> r.session]
  /\ UNCHANGED <<pc, op, res, dirh, mutex, db, contention>>
  /\ UNCHANGED <<mutt_2476_workaround_allowed, fileVars, dirVars, codecVars, linkVars>>

\* Copies of the mail are at some of the names that are renamed; the index
\* does not have the message, or has it under some of its names (a name the
\* index has and the store has not is left from a rename whose remove
\* failed, or from an unlink).
RenameInit ==
  /\ SessInit
  /\ FileIdle
  /\ DirIdle
  /\ RenameIdle
  /\ CodecIdle
  /\ LinkIdle
  /\ mutt_2476_workaround_allowed \in BOOLEAN
  /\ \E there \in SUBSET {NameA, NameB} :
       store = [p \in {TopFile} \cup there |-> RegularFile(<<1>>)]
  /\ \E known \in SUBSET {NameA, NameB, NameA \o <<"F">>},
        tags \in {<< >>, <<TagUnread>>, <<TagFlagged, TagUnread>>} :
       index = IF known = {}
                 THEN << >>
                 ELSE (1 :> [files |-> known, tags |-> tags])

RenameNext ==
  Rename

SpecRename == RenameInit /\ [][RenameNext]_vars

(***************************************************************************)
(* Claims about the index session (specification Spec).                    *)
(***************************************************************************)
\* Worker w is inside an index session: between database_open's lock and
\* the database_close of its handler, or holding an open cur handle.
InSession(w) ==
  pc[w] \in SessionPcs \/ dirh[w] = OPENDIR_TYPE_NOTMUCH_QUERY

\* C1: under any interleaving, at most one operation is inside the index
\* session, whoever is inside holds the mutex, and db is non-NULL only while
\* the mutex is locked by the worker that opened it.
C1_SessionExclusive ==
  /\ \A v, w \in Workers : InSession(v) /\ InSession(w) => v = w
  /\ \A w \in Workers : InSession(w) => mutex = w
  /\ db # NULL => mutex = db

\* C1's case: one worker has the index open while another waits for the lock.
C1_Witness ==
  \E v, w \in Workers :
    v # w /\ db = w /\ pc[w] = "body" /\ pc[v] = "lock"

\* C2: a worker that has returned from its handler holds the session exactly
\* when it holds an open cur handle: open and rename release what they
\* acquire before they return, only a successful opendir of /<q>/cur keeps
\* the session, and its releasedir gives it back.
C2_SessionPaired ==
  proc = "running" =>
    \A w \in Workers :
      pc[w] = "idle" =>
        ((mutex = w \/ db = w) <=> dirh[w] = OPENDIR_TYPE_NOTMUCH_QUERY)

\* C3: while a cur handle is open (between its opendir and its releasedir),
\* no index-needing operation is past the lock of database_open, and no
\* second cur handle exists.
C3_OthersBlocked ==
  \A w \in Workers :
    dirh[w] = OPENDIR_TYPE_NOTMUCH_QUERY =>
      \A v \in Workers :
        /\ pc[v] \notin SessionPcs
        /\ v # w => dirh[v] # OPENDIR_TYPE_NOTMUCH_QUERY

\* C3's case: a cur handle is open and another worker's open, rename or
\* opendir is blocked on the lock.
C3_Witness ==
  \E v, w \in Workers :
    /\ v # w
    /\ dirh[w] = OPENDIR_TYPE_NOTMUCH_QUERY
    /\ pc[v] = "lock"
    /\ op[v] \in {"open", "rename", "opendir"}

\* C18: an opendir that returned an error left no directory handle and
\* holds no index session: the mutex is not locked by the worker and the
\* handle it opened is closed.
C18_FailedOpendirReleases ==
  \A w \in Workers :
    (op[w] = "opendir" /\ pc[w] = "idle" /\ res[w] # "OK") =>
      /\ dirh[w] = "none"
      /\ mutex # w
      /\ db # w

\* The program points of database_open after the lock.
InDatabaseOpen(w) == pc[w] \in {"dbopen", "sleep", "upgrade"}

\* A step of database_open: it goes on, or returns with the handle open and
\* the mutex held, or the process exits; under contention the open is
\* followed by the sleep with the mutex held and no handle.
DatabaseOpenStep(w) ==
  InDatabaseOpen(w) =>
    /\ pc'[w] \in {"dbopen", "sleep", "upgrade", "body"}
    /\ pc'[w] = "body" => (db' = w /\ mutex' = w /\ proc' = "running")
    /\ proc' # "running" => (proc' = "exited" /\ pc'[w] = pc[w])
    /\ (pc[w] = "dbopen" /\ contention /\ pc'[w] # pc[w]) =>
         (pc'[w] = "sleep" /\ mutex' = w /\ db' = NULL)

HoldersIdle ==
  \A w \in Workers : dirh[w] = OPENDIR_TYPE_NOTMUCH_QUERY => pc[w] = "idle"

\* C30: if the holders of cur handles start no index-needing operation and
\* release their handles again and again, and contention stops for good,
\* then every index-needing operation that has started returns (or the
\* process has exited on an index error).
C30_NoStarvation ==
  (/\ []HoldersIdle
   /\ \A w \in Workers : []<>(dirh[w] # OPENDIR_TYPE_NOTMUCH_QUERY)
   /\ <>[](~contention))
    => \A w \in Workers :
         [](pc[w] # "idle" => <>(pc[w] = "idle" \/ proc # "running"))

(***************************************************************************)
(* Claims about open (specification SpecFile) and read (SpecRead).         *)
(***************************************************************************)
H == MAX_XLABEL_LENGTH

\* The tags of the indexed message behind the open handle.
OpenTags == index[find_message_by_filename(p_open.fh)].tags

\* tags[1], ',', tags[2], ',', ...: the comma-joined tag list.
RECURSIVE JoinTags(_)
JoinTags(tags) ==
  IF tags = << >> THEN << >>
  ELSE IF Len(tags) = 1 THEN tags[1]
  ELSE tags[1] \o <<COMMA>> \o JoinTags(Tail(tags))

\* x is "X-Label: ", region, spaces up to byte H - 2, LF at byte H - 1.
HeaderWithRegion(x, region) ==
  /\ Len(XLABEL) + Len(region) <= H - 1
  /\ \A i \in 1..Len(XLABEL) : At(x, i - 1) = XLABEL[i]
  /\ \A i \in 1..Len(region) : At(x, Len(XLABEL) + i - 1) = region[i]
  /\ \A i \in (Len(XLABEL) + Len(region))..(H - 2) : At(x, i) = SPACE
  /\ At(x, H - 1) = LF

\* An open handle of an encoded path whose message the index has.
OpenFound ==
  p_open # NoHandle /\ p_open.encoded /\ p_open.found

\* C4: a read of a virtual file that returns without an OS error returns
\* exactly the bytes [o, min(o + s, H + len(b))) of header ++ backing file.
C4_ReadIsSlice ==
  (p_open # NoHandle /\ p_open.encoded /\ rd.op = "read" /\ rd.res >= 0) =>
    LET whole == p_open.x_label \o store[p_open.fh].data
    IN /\ rd.data = SubSeq(whole, rd.off + 1,
                           Min(rd.off + rd.size, Len(whole)))
       /\ rd.res = Len(rd.data)

\* C4's case: a read that starts in the header, crosses byte H and brings
\* back bytes of the backing file.
C4_Witness ==
  /\ OpenFound
  /\ rd.op = "read"
  /\ rd.off > 0
  /\ rd.off < H
  /\ rd.res > H - rd.off

\* C6: the header of a found message is exactly H bytes, none of them NUL:
\* "X-Label: ", the tag region (the joined tags or ERROR), spaces up to byte
\* H - 2, LF at byte H - 1; nothing is written outside the buffer and no
\* assert fails.
C6_HeaderWellFormed ==
  /\ proc = "running"
  /\ OpenFound =>
       /\ Len(p_open.x_label) = H
       /\ ~p_open.over
       /\ \A i \in 0..(H - 1) : At(p_open.x_label, i) # NUL
       /\ \E region \in {JoinTags(OpenTags), TAG_ERROR_STRING} :
            HeaderWithRegion(p_open.x_label, region)

\* C6's case: a found message whose tags leave room for padding.
C6_Witness ==
  /\ OpenFound
  /\ Len(OpenTags) = 2
  /\ At(p_open.x_label, H - 2) = SPACE
  /\ At(p_open.x_label, Len(XLABEL)) # SPACE

\* C7: the tag region is ERROR exactly when the joined tags are longer than
\* H - len("X-Label: ") - 1 bytes, and is the joined tag list otherwise,
\* also when the joined length equals that limit.
C7_ErrorIffOverLimit ==
  OpenFound =>
    IF Len(JoinTags(OpenTags)) > H - Len(XLABEL) - 1
      THEN HeaderWithRegion(p_open.x_label, TAG_ERROR_STRING)
      ELSE HeaderWithRegion(p_open.x_label, JoinTags(OpenTags))

\* The attributes of the path of the open handle were taken, and a read of
\* the handle returned without an OS error.
SizeAndRead ==
  /\ p_open # NoHandle
  /\ ores.res = "OK"
  /\ st.op = "getattr"
  /\ st.path = ores.path
  /\ st.res = "OK"
  /\ rd.op = "read"
  /\ rd.res >= 0

Max(a, b) == IF a > b THEN a ELSE b

\* C29: for a path on which getattr and open succeed, the reads give the
\* st_size bytes that getattr reports and no more: a read of size bytes at
\* offset off returns min(size, st_size - off) bytes, 0 from st_size on.
C29_SizeIsBytesRead ==
  SizeAndRead => rd.res = Min(rd.size, Max(0, st.st_size - rd.off))

\* C24: an open of an encoded path whose decoded file name the index does
\* not have succeeds with a well-formed header of H bytes and an empty tag
\* region: "X-Label: ", spaces up to byte H - 2, LF at byte H - 1.
C24_NotFoundHeaderEmpty ==
  (p_open # NoHandle /\ p_open.encoded /\ ~p_open.found) =>
    /\ ores.res = "OK"
    /\ Len(p_open.x_label) = H
    /\ HeaderWithRegion(p_open.x_label, << >>)

(***************************************************************************)
(* Claims about getattr and readdir (specification SpecDir).               *)
(***************************************************************************)
\* The client holds a cur handle.
CurOpen == dir_fd # NoDir /\ dir_fd.type = OPENDIR_TYPE_NOTMUCH_QUERY

\* The entries of messages that the filler took on the cur handle.
MessageEntries ==
  IF CurOpen
    THEN {i \in 1..Len(filled) : filled[i].name \notin {Dot, DotDot}}
    ELSE {}

\* C5: the entry readdir of /q/cur gives for a backing file B carries
\* size_of(B) + H, and getattr of /q/cur/encode(B) succeeds with that same
\* size.
C5_SizeInflated ==
  /\ \A i \in MessageEntries :
       LET B == string_replace(filled[i].name, "#", "/")
       IN /\ Exists(B)
          /\ filled[i].st_size = size_of(B) + H
          /\ (st.op = "getattr" /\ st.path = CurDir \o <<"/">> \o filled[i].name)
               => (st.res = "OK" /\ st.st_size = filled[i].st_size)
  /\ \A n \in 1..MaxMsgs :
       (st.op = "getattr" /\ st.path = VirtualPath(CurDir, n) /\ Exists(MailPath(n)))
         => (st.res = "OK" /\ st.st_size = size_of(MailPath(n)) + H)

\* C5's case: a non-empty file was listed and its attributes were taken.
C5_Witness ==
  \E i \in MessageEntries :
    /\ st.op = "getattr"
    /\ st.path = CurDir \o <<"/">> \o filled[i].name
    /\ st.st_size > H

\* C8: the entries the filler took on a cur handle carry the offsets
\* 1, 2, 3, ... in order.
C8_OffsetsContiguous ==
  CurOpen => \A i \in 1..Len(filled) : filled[i].off = i

\* C8's case: a message whose file is gone was skipped, a readdir stopped at
\* a full buffer and a later readdir went on to list a message.
C8_Witness ==
  /\ CurOpen
  /\ rdd.op = "readdir"
  /\ rdd.offset_in # 0
  /\ rdd.out # << >>
  /\ \E k \in 1..(dir_fd.p_messages.pos - 1) :
       LET files == index[dir_fd.p_messages.msgs[k]].files
       IN files # {} /\ \A f \in files : ~Exists(f)

\* C9: a readdir of a cur handle with offset_in # 0 and offset_in + 1 #
\* next_offset returns the domain error, no entry is taken and the handle
\* (next_offset, the iterator) is as before the call.
C9_DiscontiguousRejected ==
  (/\ rdd.op = "readdir"
   /\ rdd.before.type = OPENDIR_TYPE_NOTMUCH_QUERY
   /\ rdd.offset_in # 0
   /\ rdd.offset_in + 1 # rdd.before.next_offset)
    => /\ rdd.res = "EDOM"
       /\ rdd.out = << >>
       /\ dir_fd = rdd.before

\* C9's case: in the middle of a listing, with messages still to come, a
\* readdir was refused.
C9_Witness ==
  /\ CurOpen
  /\ rdd.op = "readdir"
  /\ rdd.res = "EDOM"
  /\ Len(filled) >= 2
  /\ dir_fd.p_messages.pos <= Len(dir_fd.p_messages.msgs)

\* The names of the message entries the filler took on the handle, in order.
ListedNames ==
  LET taken == SelectSeq(filled, LAMBDA e : e.name \notin {Dot, DotDot})
  IN [i \in 1..Len(taken) |-> taken[i].name]

\* The encoded names of the first n messages of msgs whose file exists.
RECURSIVE ExistingUpTo(_, _)
ExistingUpTo(msgs, n) ==
  IF n = 0
    THEN << >>
    ELSE LET files == index[msgs[n]].files
             rest  == ExistingUpTo(msgs, n - 1)
         IN IF files # {} /\ \A f \in files : Exists(f)
              THEN Append(rest, string_replace(CHOOSE f \in files : TRUE, "/", "#"))
              ELSE rest

\* A stat failed (with an error other than ENOENT) in a readdir of the handle.
StatFailed == rdd.op = "readdir" /\ rdd.stat_failed

\* A readdir that follows one with a refused entry, continues it and
\* returns 0, has that entry, with its offset, as its first.
RefusedComesNext ==
  (/\ rdd.op = "readdir"
   /\ rdd.refused # << >>
   /\ rdd' # rdd
   /\ rdd'.op = "readdir"
   /\ rdd'.offset_in # 0
   /\ rdd'.offset_in + 1 = rdd'.before.next_offset
   /\ rdd'.res = "OK")
    => /\ rdd'.out # << >>
       /\ rdd'.out[1] = rdd.refused[1]

\* C19: on a cur handle with no failed stat the message entries taken so far
\* are those of the messages the iterator has passed whose file exists,
\* each once and in the iterator's order, and the iterator stands on the
\* message of a refused entry; the refused entry is the first entry of the
\* readdir that continues the listing, with the same offset.
C19_EachOnceInOrder ==
  /\ []((CurOpen /\ ~StatFailed) =>
          /\ ListedNames = ExistingUpTo(dir_fd.p_messages.msgs,
                                        dir_fd.p_messages.pos - 1)
          /\ (rdd.op = "readdir" /\ rdd.refused # << >>) =>
               /\ dir_fd.p_messages.pos <= Len(dir_fd.p_messages.msgs)
               /\ dir_fd.next_offset = rdd.refused[1].off)
  /\ [][RefusedComesNext]_vars

\* C19's case: every message of a result of two was listed, with no failed
\* stat, the last by a readdir that continued after a full buffer.
C19_Witness ==
  /\ CurOpen
  /\ ~StatFailed
  /\ rdd.op = "readdir"
  /\ rdd.offset_in # 0
  /\ rdd.out # << >>
  /\ dir_fd.p_messages.pos > Len(dir_fd.p_messages.msgs)
  /\ Len(ListedNames) >= 2
  /\ Len(filled) = Len(ListedNames) + 2

\* C20: a readdir of a cur handle with offset 0, the first of the handle or
\* a later one, gives "." at offset 1 and ".." at offset 2 as its first
\* entries and moves next_offset on by two for them.
C20_DotEntriesAtOneTwo ==
  (/\ rdd.op = "readdir"
   /\ rdd.before.type = OPENDIR_TYPE_NOTMUCH_QUERY
   /\ rdd.offset_in = 0)
    => /\ Len(rdd.out) >= 2
       /\ rdd.out[1] = Entry(Dot, NULL, 1)
       /\ rdd.out[2] = Entry(DotDot, NULL, 2)
       /\ dir_fd.next_offset = rdd.before.next_offset + Len(rdd.out)
       /\ dir_fd.next_offset >= rdd.before.next_offset + 2

(***************************************************************************)
(* Claims about getattr of backing paths (specification SpecAttr).         *)
(***************************************************************************)
\* The last call was a getattr of a path /<a>/<b> whose last segment has
\* no '#' and is not new, tmp or cur.
GetattrOfPlain ==
  /\ st.op = "getattr"
  /\ st.path \in {PlainDir \o <<"/", "x">>, <<"/", "q", "/", "x">>,
                  <<"/", "q", "/", "y">>}

\* C25: getattr of such a path is answered by lstat of the same path in
\* the backing store: it succeeds exactly when the path is there, so also
\* after the mkdir that made it, and st_size is that of the directory.
C25_BackingGetattr ==
  GetattrOfPlain =>
    /\ (st.res = "OK") <=> Exists(StrFrom(st.path, 2))
    /\ st.res = "OK" => st.st_size = size_of(StrFrom(st.path, 2))

(***************************************************************************)
(* Claims about the symlink loop of opendir (specification SpecLink).      *)
(***************************************************************************)
\* C28: an opendir of /<q>/cur that is in its symlink loop leaves it: it
\* goes on to the query and returns, whatever the links of the store are.
C28_OpendirTerminates ==
  [](lnk.pc = "loop" => <>(lnk.pc = "idle"))

(***************************************************************************)
(* Claims about rename (specification SpecRename).                         *)
(***************************************************************************)
\* The last rename was /q/cur/encode(F) -> /q/cur/encode(T) and returned 0.
RenamedInCur ==
  /\ rn.op = "rename"
  /\ rn.from \in CurTokens
  /\ rn.to \in CurTokens
  /\ rn.res = "OK"

\* The flag tags of the message are those of the flags of this file name.
TagsReflect(tags, filename) ==
  \A k \in 1..Len(flag2tag) :
    (\E i \in 1..Len(tags) : tags[i] = flag2tag[k].tag)
      <=> ((flag2tag[k].flag \in MaildirFlags(filename)) # flag2tag[k].inverse)

\* The index has the message under T and not under F, with T's flags.
IndexSynced(F, T) ==
  /\ find_in(index, T) # NULL
  /\ find_in(index, F) = NULL
  /\ TagsReflect(index[find_in(index, T)].tags, T)

IndexCallsSucceeded ==
  /\ rn.calls.add \in {"SUCCESS", "DUPLICATE_MESSAGE_ID"}
  /\ rn.calls.remove \in {"none", "SUCCESS", "DUPLICATE_MESSAGE_ID"}
  /\ rn.calls.find = "SUCCESS"
  /\ rn.calls.flags = "SUCCESS"

\* The index has the message under no name other than F and T.
NoOtherNames ==
  \A id \in DOMAIN index :
    index[id].files \subseteq {rn.trans_name_from, rn.trans_name_to}

C14_ExcludedTagsKept ==
  /\ excluded_tags \in ExcludedTagLists
  /\ (CurOpen /\ excluded_tags # << >>) => dir_fd.p_query.exclude = <<TagX, TagY>>

\* C16: an open whose access mode is not read-only returns -EACCES, makes
\* no handle, does not call open(2) and does not reach database_open.
C16_WriteRefused ==
  (ores.op = "open" /\ ores.flags % 4 \in {O_WRONLY, O_RDWR}) =>
    /\ ores.res = "EACCES"
    /\ p_open = NoHandle
    /\ ores.os_open = << >>
    /\ ~ores.session
    /\ mutex = NULL
    /\ db = NULL

\* C16's case: an open for reading and writing of a mail that exists and is
\* indexed was refused.
C16_Witness ==
  /\ ores.op = "open"
  /\ ores.flags = O_RDWR
  /\ ores.path = VirtualMail
  /\ ores.res = "EACCES"
  /\ Exists(MailFile)
  /\ find_message_by_filename(MailFile) # NULL

(***************************************************************************)
(* Claims about which renames are made (specification SpecRename).         *)
(***************************************************************************)
\* The last position of ch in the path after its leading '/', or 0.
LastOf(path, ch) ==
  IF \E i \in 2..Len(path) : path[i] = ch
    THEN CHOOSE i \in 2..Len(path) :
           path[i] = ch /\ \A j \in (i + 1)..Len(path) : path[j] # ch
    ELSE 0

\* The three characters before the last '/' of the path: the name of the
\* directory the token is in.
ParentSegment(path) ==
  SubSeq(path, LastOf(path, "/") - 3, LastOf(path, "/") - 1)

\* from is in a cur and to in a new directory, or the other way round, and
\* the paths agree before that directory name.
ParentsAre(from, to, seg_from, seg_to) ==
  /\ LastOf(from, "/") >= 4
  /\ LastOf(to, "/") = LastOf(from, "/")
  /\ SubSeq(from, 1, LastOf(from, "/") - 4) = SubSeq(to, 1, LastOf(to, "/") - 4)
  /\ ParentSegment(from) = seg_from
  /\ ParentSegment(to) = seg_to

Case1(from, to) == ParentsAre(from, to, <<"c", "u", "r">>, <<"n", "e", "w">>)

Case2(from, to) == ParentsAre(from, to, <<"n", "e", "w">>, <<"c", "u", "r">>)

\* The renames the validation is to reject.
Unsupported(from, to) ==
  \/ (LastOf(from, "#") = 0) # (LastOf(to, "#") = 0)
  \/ /\ LastOf(from, "#") # 0
     /\ LastOf(to, "#") # 0
     /\ \/ LastOf(from, "#") # LastOf(to, "#")
        \/ /\ SubSeq(from, 1, LastOf(from, "#") - 1) # SubSeq(to, 1, LastOf(to, "#") - 1)
           /\ ~(mutt_2476_workaround_allowed /\ (Case1(from, to) \/ Case2(from, to)))

\* C11: a rename the validation is to reject returns not-supported, leaves
\* the backing store and the index as they were and does not reach
\* database_open.
C11_UnsupportedUntouched ==
  [][(rn'.op = "rename" /\ Unsupported(rn'.from, rn'.to)) =>
       /\ rn'.res = "ENOTSUP"
       /\ ~rn'.session
       /\ rn'.calls = NoCalls
       /\ store' = store
       /\ index' = index
       /\ mutex' = mutex
       /\ db' = db]_vars

\* C11's case: with the workaround off, a rename from cur to new of a file
\* that exists and is indexed was refused.
C11_Witness ==
  /\ rn.op = "rename"
  /\ rn.from = EncodedPath(CurDir, NameA)
  /\ rn.to = EncodedPath(NewDir, NameB)
  /\ ~mutt_2476_workaround_allowed
  /\ rn.res = "ENOTSUP"
  /\ Exists(NameA)
  /\ find_in(index, NameA) # NULL

\* The last rename opened its atomic section with F = T.
RenamedSameName ==
  /\ rn.op = "rename"
  /\ rn.session
  /\ rn.calls.begin = "SUCCESS"
  /\ rn.trans_name_from = rn.trans_name_to

\* C12: a rename with F = T makes no add, no remove, no lookup and no
\* flag synchronisation.
C12_SameNameSkipsAll ==
  RenamedSameName =>
    /\ rn.calls.add = "none"
    /\ rn.calls.remove = "none"
    /\ rn.calls.find = "none"
    /\ rn.calls.flags = "none"

\* C12, as the code has it: a rename with F = T makes no add and no remove;
\* it does look the message up by T, and synchronises the flags of the
\* message it finds.
C12_SameNameSkipsAddRemove ==
  RenamedSameName =>
    /\ rn.calls.add = "none"
    /\ rn.calls.remove = "none"
    /\ rn.calls.find # "none"
    /\ (rn.calls.find = "SUCCESS" /\ proc = "running") => rn.calls.flags # "none"

\* C12's case: a rename of a name to itself synchronised the flags.
C12_Witness ==
  /\ RenamedSameName
  /\ rn.from = rn.to
  /\ rn.calls.add = "none"
  /\ rn.calls.find = "SUCCESS"
  /\ rn.calls.flags = "SUCCESS"

RenamesDiffer ==
  /\ rn.op = "none"
  /\ rn'.op = "rename"
  /\ rn'.calls.begin = "SUCCESS"
  /\ rn'.trans_name_from # rn'.trans_name_to

\* C21: in a rename with F # T the add of T is made, the remove of F is
\* made exactly when the add returned duplicate-message-id, and the rename
\* goes on to the lookup of T for the flag synchronisation whatever the add
\* returned; after any other status of the add the index has F as before,
\* and after a remove that did not fail the index no longer has F.
C21_RemoveIffDuplicate ==
  [][RenamesDiffer =>
       /\ rn'.calls.add # "none"
       /\ (rn'.calls.remove # "none") <=> (rn'.calls.add = "DUPLICATE_MESSAGE_ID")
       /\ rn'.calls.find # "none"
       /\ rn'.calls.add # "DUPLICATE_MESSAGE_ID" =>
            (find_in(index, rn'.trans_name_from) # NULL =>
               find_in(index', rn'.trans_name_from)
                 = find_in(index, rn'.trans_name_from))
       /\ rn'.calls.remove \in {"SUCCESS", "DUPLICATE_MESSAGE_ID"} =>
            find_in(index', rn'.trans_name_from) = NULL]_vars

\* C21's case: the add of T failed, F was not removed (the index has the
\* message under F and T), and the flags were synchronised.
C21_Witness ==
  /\ rn.op = "rename"
  /\ rn.trans_name_from = NameA
  /\ rn.trans_name_to = NameB
  /\ rn.calls.add = "XAPIAN_EXCEPTION"
  /\ rn.calls.remove = "none"
  /\ rn.calls.flags = "SUCCESS"
  /\ rn.res = "OK"
  /\ find_in(index, NameA) # NULL

\* The last rename looked T up and the index has no message under T.
LookupFoundNone ==
  /\ rn.op = "rename"
  /\ rn.calls.find # "none"
  /\ find_in(index, rn.trans_name_to) = NULL

\* C22: a rename whose lookup of T finds no message skips the flag
\* synchronisation, closes the atomic section, releases the session and
\* returns success (when the close succeeded); the process is not aborted.
C22_LookupMissTolerated ==
  LookupFoundNone =>
    /\ proc = "running"
    /\ rn.calls.flags = "none"
    /\ rn.calls.unread = "none"
    /\ rn.calls.end # "none"
    /\ rn.calls.end = "SUCCESS" => rn.res = "OK"
    /\ mutex = NULL
    /\ db = NULL

\* This step is a rename.
Renames == rn.op = "none" /\ rn'.op = "rename"

\* C23: a rename whose notmuch_database_begin_atomic failed made no add, no
\* remove, no lookup and no flag synchronisation, left the index as it was
\* and returned -EIO; a rename whose notmuch_database_end_atomic failed
\* returned -EIO; and a rename that returned -EIO had opened the session
\* and has closed it: the process runs, db is NULL, the mutex is unlocked.
C23_AtomicFailureIsEIO ==
  [][Renames =>
       /\ rn'.calls.begin = "XAPIAN_EXCEPTION" =>
            /\ rn'.res = "EIO"
            /\ rn'.calls = [NoCalls EXCEPT !.begin = "XAPIAN_EXCEPTION"]
            /\ index' = index
       /\ rn'.calls.end = "XAPIAN_EXCEPTION" => rn'.res = "EIO"
       /\ rn'.res = "EIO" =>
            /\ rn'.session
            /\ "XAPIAN_EXCEPTION" \in {rn'.calls.begin, rn'.calls.end}
            /\ proc' = "running"
            /\ mutex' = NULL
            /\ db' = NULL]_vars

\* C23's case: the add and the remove were made and the flags synchronised,
\* then closing the atomic section failed and the rename returned -EIO.
C23_Witness ==
  /\ rn.op = "rename"
  /\ rn.calls.add = "DUPLICATE_MESSAGE_ID"
  /\ rn.calls.remove # "none"
  /\ rn.calls.flags = "SUCCESS"
  /\ rn.calls.end = "XAPIAN_EXCEPTION"
  /\ rn.res = "EIO"
  /\ mutex = NULL
  /\ db = NULL

\* C26: a rename of encoded names that returns an error leaves the backing
\* store as it was.
C26_FailedRenameMovesNothing ==
  [][(Renames /\ rn'.trans_name_from # << >> /\ rn'.res \notin {"OK", "none"})
       => store' = store]_vars

\* The path up to and including its last '/'.
DirectoryOf(path) == SubSeq(path, 1, LastOf(path, "/"))

\* C27: a rename of encoded names that is not rejected and moves the file
\* (rename(2) succeeded and database_open was reached) has F and T in the
\* same backing directory: they are equal up to and including their last
\* '/'.
C27_SameBackingDirectory ==
  (rn.op = "rename" /\ rn.session) =>
    DirectoryOf(rn.trans_name_from) = DirectoryOf(rn.trans_name_to)

(***************************************************************************)
(* Claims about the name codec (specification SpecCodec).                  *)
(***************************************************************************)
Has(str, ch) == \E i \in 1..Len(str) : str[i] = ch

\* str is orig with every old replaced by new.
Replaced(orig, str, old, new) ==
  /\ Len(str) = Len(orig)
  /\ \A i \in 1..Len(orig) : str[i] = IF orig[i] = old THEN new ELSE orig[i]

\* C15: encode replaces every '/' by '#' and decode every '#' by '/';
\* encoding the decoding of a token with no '/' gives the token back, and
\* decoding the encoding of a path with no '#' gives the path back.
C15_CodecRoundTrip ==
  /\ codec.ops = <<"encode">> =>
        Replaced(codec.orig, codec.str, "/", "#") /\ ~Has(codec.str, "/")
  /\ codec.ops = <<"decode">> =>
        Replaced(codec.orig, codec.str, "#", "/") /\ ~Has(codec.str, "#")
  /\ (codec.ops = <<"decode", "encode">> /\ ~Has(codec.orig, "/")) =>
        codec.str = codec.orig
  /\ (codec.ops = <<"encode", "decode">> /\ ~Has(codec.orig, "#")) =>
        codec.str = codec.orig

\* C15's case: a path with two '/' was encoded and decoded again.
C15_Witness ==
  /\ codec.ops = <<"encode", "decode">>
  /\ codec.orig = <<"/", "a", "/", "a">>
  /\ codec.str = codec.orig

====
